---- MODULE Spec2Model ----
(***************************************************************************)
(* Relay server of ConsortiumAI/consortium: the store (accounts, sessions, *)
(* session messages, machines), the sequence allocators, the optimistic-   *)
(* concurrency update handlers, the message handler and the session and    *)
(* machine routes, as interleaved asynchronous handlers.  One action is    *)
(* one store call of a handler together with the synchronous code that     *)
(* runs when the call returns; the emit that follows the last store call   *)
(* of a handler is a step of its own, because other handlers' store calls  *)
(* can complete between a store call and the continuation that emits.      *)
(* The event router and the sockets (handshake, connection map, recipient  *)
(* filters, delivery) are modelled in their own part, SpecRouter.          *)
(***************************************************************************)
EXTENDS Integers, Sequences, FiniteSets, TLC

\* ---- bounds of the model -------------------------------------------------
MaxReq == 3          \* request frames / HTTP requests issued in a behaviour
MaxEmit == 1         \* emit calls of the handlers in a behaviour of the router

Accounts == {"u1", "u2"}
Clients == {"u1"}    \* the account whose connections send frames, delete
                     \* sessions and register machines; the other account
                     \* only creates sessions
Tags == {"t1"}
MachineIds == {"m1"}
LocalIds == {"l1"}
Vals == {"a", "b"}    \* ciphertexts
InitialVals == {"a"} \* the ciphertexts the creating requests carry
Null == "null"
NotAString == "notString"
AgentStates == {"a", Null, NotAString}   \* update-state: a string, null, neither
Slots == {1, 2}      \* handlers that can be suspended at a store call at once
SessionIds == {1, 2}  \* the ids db.session.create hands out, in order
ExpectedVersions == 0..2

ConnIds == {1, 2}        \* the sockets, in the order they connect
MaxPush == 3         \* messages handed to the message queue in a behaviour
Calls == {1, 2}      \* calls of waitForMessagesAndGetAsString that can be open at once
ScopeSessionIds == {1}   \* auth.sessionId of session-scoped clients
ScopeMachineIds == {"m1"} \* auth.machineId of machine-scoped clients
FilterSessionIds == {1, 2}        \* sessionId of all-interested-in-session
FilterMachineIds == {"m1", "m2"}  \* machineId of machine-scoped-only
Missing == "missing"     \* a handshake field that is absent
NoSessionId == 0         \* auth.sessionId absent
InvalidToken == "invalid"

Methods == {"ma", "mb"}  \* RPC method names
NoTarget == 0            \* rpcListeners.get(method) is undefined
AckPayloads == {"r1", "r2"}    \* what a target acks an rpc-request with

Now == 1000000               \* Date.now() while the heartbeats are handled
StaleWindow == 1000 * 60 * 10  \* heartbeats older than this are ignored
CreatedAt == 0               \* the time the rows were created at
NotANumber == 0 - 1          \* stands for a time that is not of type number
HeartbeatTimes == {Now - StaleWindow - 1, Now - StaleWindow, Now + 1, NotANumber}

PublicKeys == {"k1"}          \* public keys of pairing clients
InvalidKey == "short"         \* a key that is not of box public key length
Responses == {"", "r1", "r2"} \* response: z.string()
NoAccount == "none"           \* responseAccountId not set

NoRow == [none |-> TRUE]

VARIABLES
    sock,         \* the sockets: handshake position, connection, transport
    userConnections, \* EventRouter.userConnections: account -> connections
    sent,         \* the calls of EventRouter.emit so far, in order
    rpcListeners, \* per account, the socket registered for each RPC method
    rpcCall,      \* per socket, its rpc-call being handled
    ephemerals,   \* ephemerals the heartbeat handlers handed to the router
    recv,         \* per socket, the payloads emitted on it that arrived
    accountSeq,   \* Account.seq per account
    sessions,     \* Session rows by id (NoRow: no such row)
    sessCreated,  \* number of session ids handed out so far
    machines,     \* Machine rows by <<accountId, id>>
    messages,     \* SessionMessage rows in insertion order
    events,       \* update events handed to eventRouter.emitUpdate, in order
    h,            \* the handlers in flight: position and locals per slot
    nreq,         \* requests issued so far
    authRequests, \* AccountAuthRequest rows by public key
    polls,        \* the answers of POST /v1/auth/account/request, in order
    flush,        \* per socket, the flush() of its client and the ping it sent
    queue,        \* MessageQueue2.queue
    waiter,       \* MessageQueue2.waiter: the call whose waiterFunc it holds
    closed,       \* MessageQueue2.closed
    calls,        \* the calls of waitForMessagesAndGetAsString
    pending,      \* the messages queued and neither discarded nor returned
    npush,        \* messages handed to the queue so far
    client,       \* ApiSessionClient: its session and its cached versions
    own,          \* per field, the client's update request and its handler
    cursor,       \* the events the client's socket has received so far
    launcher,     \* claudeRemoteLauncher: its position and its locals
    taken,        \* the batches the launcher took from the queue, in order
    delivered     \* the batches nextMessage returned to claudeRemote, in order

routerVars == <<sock, userConnections, sent, recv>>

storeVars == <<accountSeq, sessions, sessCreated, machines, messages, events, h, nreq>>

auxVars == <<rpcListeners, rpcCall, ephemerals>>

authVars == <<authRequests, polls>>

pingVars == <<flush>>

queueVars == <<queue, waiter, closed, calls, pending, npush>>

clientVars == <<client, own, cursor>>

launcherVars == <<launcher, taken, delivered>>

\* the state of the clients
cliVars == <<pingVars, queueVars, clientVars, launcherVars>>

\* what the steps of one part of the clients leave alone
pingRest == <<queueVars, clientVars, launcherVars>>
queueRest == <<pingVars, clientVars, launcherVars>>
clientRest == <<pingVars, queueVars, launcherVars>>
launcherRest == <<pingVars, clientVars>>

\* what the handlers of the relay's store, router and sockets leave alone
outerVars == <<authVars, cliVars>>

vars == <<accountSeq, sessions, sessCreated, machines, messages, events, h, nreq,
          sock, userConnections, sent, recv, rpcListeners, rpcCall, ephemerals,
          authRequests, polls, flush, queue, waiter, closed, calls, pending, npush,
          client, own, cursor, launcher, taken, delivered>>

\* ---- handler frames ------------------------------------------------------
IdleFrame ==
    [kind |-> "none", pc |-> "idle", uid |-> "none", id |-> 0, mid |-> "none",
     tag |-> "none",
     val |-> Null, state |-> Null, ev |-> 0, localId |-> Null,
     rdVer |-> 0, rdVal |-> Null, updSeq |-> 0, updSeq2 |-> 0, msgSeq |-> 0,
     time |-> 0, publicKey |-> "none", path |-> "none", cbs |-> <<>>]

Callback(result, version, value) ==
    [result |-> result, version |-> version, value |-> value]

ErrorCallback == Callback("error", 0, Null)

HttpReply(code) == Callback("http", code, Null)

Done(f, path, cbs) == [f EXCEPT !.pc = "done", !.path = path, !.cbs = f.cbs \o cbs]

IsString(v) == v \in Vals

\* ---- the store -----------------------------------------------------------
\* mutant of FindSession: the account is not part of the lookup
FindSessionAnyOwner(sid, uid) == sessions[sid]

\* db.session.findUnique / findFirst ({ where: { id, accountId } })
FindSession(sid, uid) ==
    IF sessions[sid] # NoRow /\ sessions[sid].accountId = uid
    THEN sessions[sid] ELSE NoRow

\* db.session.findFirst({ where: { accountId, tag } }): the ids of the rows
FindSessionByTag(uid, tag) ==
    {s \in SessionIds : sessions[s] # NoRow /\ sessions[s].accountId = uid
                                            /\ sessions[s].tag = tag}

\* db.machine.findFirst({ where: { accountId, id } })
FindMachine(uid, mid) == machines[<<uid, mid>>]

\* db.sessionMessage.findFirst({ where: { sessionId, localId } })
FindMessage(sid, localId) ==
    {k \in 1..Len(messages) : messages[k].sessionId = sid
                              /\ messages[k].localId = localId}

\* mutants of SeqIncrement: an increment by two; a row returned unincremented
SeqIncrementSkips(seq) == seq + 2

SeqNoIncrement(seq) == seq

\* data: { seq: { increment: 1 } }
SeqIncrement(seq) == seq + 1

\* mutant of NextVersion: the version written skips one
NextVersionSkips(expectedVersion) == expectedVersion + 2

\* data: { ..., metadataVersion: expectedVersion + 1 }
NextVersion(expectedVersion) == expectedVersion + 1

\* mutant of VersionMatches: the version check is skipped
VersionAlwaysMatches(stored, expectedVersion) == TRUE

\* if (row.version !== expectedVersion) -> version-mismatch
VersionMatches(stored, expectedVersion) == stored = expectedVersion

\* mutant of MetadataWriteMatches: the where clause names the id only
MetadataWriteUnconditional(sid, expectedVersion) == sessions[sid] # NoRow

\* the rows db.session.updateMany({ where: { id, metadataVersion } }) matches
MetadataWriteMatches(sid, expectedVersion) ==
    sessions[sid] # NoRow /\ sessions[sid].metadataVersion = expectedVersion

\* the rows db.session.updateMany({ where: { id, agentStateVersion } }) matches
AgentStateWriteMatches(sid, expectedVersion) ==
    sessions[sid] # NoRow /\ sessions[sid].agentStateVersion = expectedVersion

\* db.machine.updateMany({ where: { accountId, id, metadataVersion } })
MachineMetadataWriteMatches(uid, mid, expectedVersion) ==
    machines[<<uid, mid>>] # NoRow
    /\ machines[<<uid, mid>>].metadataVersion = expectedVersion

\* db.machine.updateMany({ where: { accountId, id, daemonStateVersion } })
MachineStateWriteMatches(uid, mid, expectedVersion) ==
    machines[<<uid, mid>>] # NoRow
    /\ machines[<<uid, mid>>].daemonStateVersion = expectedVersion

\* the columns of a Session row that db.session.create is not given
SessionDefaults ==
    [seq |-> 0, metadataVersion |-> 1, agentState |-> Null, agentStateVersion |-> 0,
     active |-> TRUE, lastActiveAt |-> CreatedAt]

\* the unique indexes and the relation of the schema: an insert they reject
\* makes the store call throw
TagIndexRejects(uid, tag) == FindSessionByTag(uid, tag) # {}

MachineKeyRejects(uid, mid) == FindMachine(uid, mid) # NoRow

LocalIdIndexRejects(sid, localId) == localId # Null /\ FindMessage(sid, localId) # {}

SessionRelationRejects(sid) == sessions[sid] = NoRow

\* the row db.session.create makes: the route passes accountId, tag and
\* metadata (and no agentState)
NewSessionRow(uid, tag, metadata) ==
    [accountId |-> uid, tag |-> tag, seq |-> SessionDefaults.seq,
     metadata |-> metadata, metadataVersion |-> SessionDefaults.metadataVersion,
     agentState |-> SessionDefaults.agentState,
     agentStateVersion |-> SessionDefaults.agentStateVersion,
     active |-> SessionDefaults.active,
     lastActiveAt |-> SessionDefaults.lastActiveAt]

\* the row db.machine.create makes in POST /v1/machines
NewMachineRow(metadata, daemonState) ==
    [metadata |-> metadata, metadataVersion |-> 1,
     daemonState |-> daemonState,
     daemonStateVersion |-> IF daemonState # Null THEN 1 ELSE 0,
     active |-> FALSE, lastActiveAt |-> CreatedAt]

\* mutant of NewMessageRow: the localId is not passed to the insert
NewMessageRowNoLocalId(sid, seq, localId) ==
    [sessionId |-> sid, seq |-> seq, localId |-> Null]

\* the row db.sessionMessage.create makes
NewMessageRow(sid, seq, localId) == [sessionId |-> sid, seq |-> seq, localId |-> localId]

\* ---- update events -------------------------------------------------------
Filter(type, id) == [type |-> type, id |-> id]

\* mutant of UpdateEvent: the payload carries the version before the write
UpdateEventStaleVersion(uid, seq, t, id, field, value, version, filter, skip) ==
    [userId |-> uid, seq |-> seq, t |-> t, id |-> id, field |-> field,
     value |-> value, version |-> version - 1, filter |-> filter, skip |-> skip]

\* buildUpdateSessionUpdate / buildUpdateMachineUpdate / buildNewMessageUpdate /
\* buildNewSessionUpdate / buildDeleteSessionUpdate / buildNewMachineUpdate,
\* with the parameters of emitUpdate
UpdateEvent(uid, seq, t, id, field, value, version, filter, skip) ==
    [userId |-> uid, seq |-> seq, t |-> t, id |-> id, field |-> field,
     value |-> value, version |-> version, filter |-> filter, skip |-> skip]

\* ---- sockets --------------------------------------------------------------
\* a socket: where its connection handler stands (phase), what the handler
\* holds of the handshake's auth fields, whether the socket is still
\* connected (open) and whether its transport still carries packets
NoSocket ==
    [phase |-> "none", token |-> Missing, connectionType |-> "none",
     sessionId |-> NoSessionId, machineId |-> Missing,
     open |-> FALSE, writable |-> FALSE, error |-> "none"]

\* mutant of RejectedSocket: the error frame is sent and the socket is left
\* connected
RejectedStaysOpen(message) ==
    [NoSocket EXCEPT !.phase = "rejected", !.error = message, !.open = TRUE]

\* socket.emit('error', { message }); socket.disconnect(); return
RejectedSocket(message) == [NoSocket EXCEPT !.phase = "rejected", !.error = message]

\* the rpc-call a socket has sent: where its handler stands, the method, the
\* socket the rpc-request was forwarded to, and the callbacks made so far
NoCall == [pc |-> "idle", method |-> Missing, target |-> NoTarget, cbs |-> <<>>]

\* ApiSessionClient.flush of a socket's client: where the promise stands,
\* what became of the ping frame, and what resolved the promise
NoFlush == [pc |-> "idle", ping |-> "none", by |-> "none"]

\* ---- values of the session client ---------------------------------------

\* the two versioned fields of a session
Fields == {"metadata", "agentState"}

\* the account of the client's token
ClientAccount == "u1"

NoClient == [sid |-> NoSessionId, version |-> [field \in Fields |-> 0]]

NoAnswer == Callback("none", 0, Null)

\* an update request of the client and the handler that serves it
IdleRequest ==
    [pc |-> "idle", ev |-> 0, val |-> Null, rdVer |-> 0, updSeq |-> 0,
     answer |-> NoAnswer, after |-> 0]

\* ---- values of the message queue --------------------------------------

PermissionModes == {"default", "acceptEdits", "plan"}

\* EnhancedMode, by the one field the messages of the model differ in
Modes == [permissionMode : PermissionModes]

\* the hasher the queue is constructed with: hashObject of the mode's fields,
\* with isPlan in place of permissionMode
ModeHasher(mode) == [isPlan |-> mode.permissionMode = "plan"]

NoMode == [permissionMode |-> "none"]

\* a QueueItem; message is the number of the message, which stands for its text
Item(message, mode, isolate) ==
    [message |-> message, mode |-> mode, modeHash |-> ModeHasher(mode),
     isolate |-> isolate]

\* null, as a value of the batch's shape
NullBatch ==
    [null |-> TRUE, message |-> <<>>, mode |-> NoMode, hash |-> ModeHasher(NoMode),
     isolate |-> FALSE]

NoWaiter == 0

\* a call of waitForMessagesAndGetAsString with its AbortSignal
IdleCall == [pc |-> "idle", has |-> FALSE, aborted |-> FALSE, result |-> NullBatch]

\* ---- values of the launcher ---------------------------------------------

NoReason == "null"

\* modeHash = null
NoHash == ModeHasher(NoMode)

\* claudeRemoteLauncher(session) as it is entered: exitReason, abortController
\* and pending are null
NewLauncher ==
    [pc |-> "top", exitReason |-> NoReason, controller |-> FALSE,
     pending |-> NullBatch, hasMode |-> FALSE, modeHash |-> NoHash]

\* before loop() calls it
NoLauncher == [NewLauncher EXCEPT !.pc = "none"]

\* ---- scheduling ----------------------------------------------------------
\* a request is taken by the lowest free slot
Free(i) == h[i].pc = "idle" /\ \A j \in Slots : j < i => h[j].pc # "idle"

CanStart(i) == Free(i) /\ nreq < MaxReq

Frame(kind, uid, id, val, ev) ==
    [IdleFrame EXCEPT !.kind = kind, !.uid = uid, !.id = id, !.val = val, !.ev = ev]

InFlight(kind) == {j \in Slots : h[j].kind = kind /\ h[j].pc \notin {"idle", "done"}}

Init ==
    /\ accountSeq = [u \in Accounts |-> 0]
    /\ sessions = [s \in SessionIds |-> NoRow]
    /\ sessCreated = 0
    /\ machines = [k \in Accounts \X MachineIds |-> NoRow]
    /\ messages = <<>>
    /\ events = <<>>
    /\ h = [i \in Slots |-> IdleFrame]
    /\ nreq = 0
    /\ sock = [c \in ConnIds |-> NoSocket]
    /\ userConnections = [u \in Accounts |-> {}]
    /\ sent = <<>>
    /\ recv = [c \in ConnIds |-> <<>>]
    /\ rpcListeners = [u \in Accounts |-> [m \in Methods |-> NoTarget]]
    /\ rpcCall = [c \in ConnIds |-> NoCall]
    /\ ephemerals = <<>>
    /\ authRequests = [k \in PublicKeys |-> NoRow]
    /\ polls = <<>>
    /\ flush = [c \in ConnIds |-> NoFlush]
    /\ queue = <<>>
    /\ waiter = NoWaiter
    /\ closed = FALSE
    /\ calls = [w \in Calls |-> IdleCall]
    /\ pending = <<>>
    /\ npush = 0
    /\ client = NoClient
    /\ own = [field \in Fields |-> IdleRequest]
    /\ cursor = 0
    /\ launcher = NoLauncher
    /\ taken = <<>>
    /\ delivered = <<>>

\* ---- storage/seq -------------------------------------------------------
\* allocateUserSeq(accountId): one atomic increment returning the new value
AllocateUserSeq(i) ==
    /\ h[i].pc = "allocUser"
    /\ accountSeq' = [accountSeq EXCEPT ![h[i].uid] = SeqIncrement(accountSeq[h[i].uid])]
    /\ h' = [h EXCEPT ![i].updSeq = accountSeq'[h[i].uid],
                      ![i].pc = CASE h[i].kind = "create-session" -> "create"
                                  [] h[i].kind = "message" -> "allocSession"
                                  [] h[i].kind = "create-machine" -> "allocUser2"
                                  [] OTHER -> "emit"]
    /\ UNCHANGED <<sessions, sessCreated, machines, messages, events, nreq>>
    /\ UNCHANGED routerVars
    /\ UNCHANGED auxVars
    /\ UNCHANGED outerVars

\* the second allocateUserSeq of POST /v1/machines
AllocateUserSeq2(i) ==
    /\ h[i].pc = "allocUser2"
    /\ accountSeq' = [accountSeq EXCEPT ![h[i].uid] = SeqIncrement(accountSeq[h[i].uid])]
    /\ h' = [h EXCEPT ![i].updSeq2 = accountSeq'[h[i].uid], ![i].pc = "emit"]
    /\ UNCHANGED <<sessions, sessCreated, machines, messages, events, nreq>>
    /\ UNCHANGED routerVars
    /\ UNCHANGED auxVars
    /\ UNCHANGED outerVars

\* allocateSessionSeq(sessionId) in the message handler: the increment of a
\* session row that is gone throws, and the handler's catch logs it
AllocateSessionSeq(i) ==
    /\ h[i].pc = "allocSession"
    /\ IF sessions[h[i].id] # NoRow
       THEN /\ sessions' = [sessions EXCEPT ![h[i].id].seq = SeqIncrement(sessions[h[i].id].seq)]
            /\ h' = [h EXCEPT ![i].msgSeq = sessions'[h[i].id].seq,
                              ![i].pc = IF h[i].localId # Null THEN "dedup" ELSE "create"]
       ELSE /\ h' = [h EXCEPT ![i] = Done(h[i], "throw", <<>>)]
            /\ UNCHANGED sessions
    /\ UNCHANGED <<accountSeq, sessCreated, machines, messages, events, nreq>>
    /\ UNCHANGED routerVars
    /\ UNCHANGED auxVars
    /\ UNCHANGED outerVars

\* ---- POST /v1/sessions ---------------------------------------------------
\* findFirst by (accountId, tag): an existing session is returned unchanged
CreateSessionFindWith(i, agentStates) ==
    /\ CanStart(i)
    /\ sessCreated + Cardinality(InFlight("create-session")) < Cardinality(SessionIds)
    /\ \E uid \in Accounts, tag \in Tags, metadata \in InitialVals,
          agentState \in agentStates :
         LET f == [Frame("create-session", uid, 0, metadata, 0)
                       EXCEPT !.tag = tag, !.state = agentState] IN
         h' = [h EXCEPT ![i] =
                 IF FindSessionByTag(uid, tag) # {}
                 THEN Done([f EXCEPT !.id = CHOOSE s \in FindSessionByTag(uid, tag) : TRUE],
                           "existing", <<HttpReply(200)>>)
                 ELSE [f EXCEPT !.pc = "allocUser"]]
    /\ nreq' = nreq + 1
    /\ UNCHANGED <<accountSeq, sessions, sessCreated, machines, messages, events>>
    /\ UNCHANGED routerVars
    /\ UNCHANGED auxVars
    /\ UNCHANGED outerVars

\* the body's agentState is not among the fields the route reads, so the
\* requests carry none where it is of no interest
CreateSessionFind(i) == CreateSessionFindWith(i, {Null})

\* db.session.create: the unique (accountId, tag) index rejects a second row,
\* and the route has no try/catch, so the request fails with a 500
CreateSessionCreate(i) ==
    /\ h[i].kind = "create-session" /\ h[i].pc = "create"
    /\ IF ~TagIndexRejects(h[i].uid, h[i].tag)
       THEN /\ sessions' = [sessions EXCEPT ![sessCreated + 1] =
                              NewSessionRow(h[i].uid, h[i].tag, h[i].val)]
            /\ sessCreated' = sessCreated + 1
            /\ h' = [h EXCEPT ![i].pc = "emit", ![i].id = sessCreated + 1,
                              ![i].rdVer = sessions'[sessCreated + 1].metadataVersion,
                              ![i].rdVal = sessions'[sessCreated + 1].metadata]
       ELSE /\ h' = [h EXCEPT ![i] = Done(h[i], "throw", <<HttpReply(500)>>)]
            /\ UNCHANGED <<sessions, sessCreated>>
    /\ UNCHANGED <<accountSeq, machines, messages, events, nreq>>
    /\ UNCHANGED routerVars
    /\ UNCHANGED auxVars
    /\ UNCHANGED outerVars

\* eventRouter.emitUpdate(new-session, user-scoped-only); reply.send
CreateSessionEmit(i) ==
    /\ h[i].kind = "create-session" /\ h[i].pc = "emit"
    /\ events' = Append(events,
         UpdateEvent(h[i].uid, h[i].updSeq, "new-session", h[i].id, "metadata",
                     h[i].rdVal, h[i].rdVer, Filter("user-scoped-only", 0), "none"))
    /\ h' = [h EXCEPT ![i] = Done(h[i], "success", <<HttpReply(200)>>)]
    /\ UNCHANGED <<accountSeq, sessions, sessCreated, machines, messages, nreq>>
    /\ UNCHANGED routerVars
    /\ UNCHANGED auxVars
    /\ UNCHANGED outerVars

\* ---- update-metadata -----------------------------------------------------
\* parameter check, findUnique and version check; an unknown session returns
\* without calling back
UpdateMetadataRead(i) ==
    /\ CanStart(i)
    /\ \E uid \in Clients, sid \in SessionIds, metadata \in Vals \cup {Null},
          expectedVersion \in ExpectedVersions :
         LET f == Frame("update-metadata", uid, sid, metadata, expectedVersion)
             session == FindSession(sid, uid) IN
         h' = [h EXCEPT ![i] =
                 IF ~IsString(metadata) THEN Done(f, "invalid", <<ErrorCallback>>)
                 ELSE IF session = NoRow THEN Done(f, "not-found", <<>>)
                 ELSE IF ~VersionMatches(session.metadataVersion, expectedVersion)
                 THEN Done([f EXCEPT !.rdVer = session.metadataVersion, !.rdVal = session.metadata],
                           "mismatch",
                           <<Callback("version-mismatch", session.metadataVersion,
                                      session.metadata)>>)
                 ELSE [f EXCEPT !.pc = "write", !.rdVer = session.metadataVersion,
                                !.rdVal = session.metadata]]
    /\ nreq' = nreq + 1
    /\ UNCHANGED <<accountSeq, sessions, sessCreated, machines, messages, events>>
    /\ UNCHANGED routerVars
    /\ UNCHANGED auxVars
    /\ UNCHANGED outerVars

\* updateMany where { id, metadataVersion }; on count 0 the callback carries
\* the session read before the write
UpdateMetadataWrite(i) ==
    /\ h[i].kind = "update-metadata" /\ h[i].pc = "write"
    /\ IF MetadataWriteMatches(h[i].id, h[i].ev)
       THEN /\ sessions' = [sessions EXCEPT ![h[i].id].metadata = h[i].val,
                                            ![h[i].id].metadataVersion = NextVersion(h[i].ev)]
            /\ h' = [h EXCEPT ![i].pc = "allocUser"]
       ELSE /\ h' = [h EXCEPT ![i] = Done(h[i], "lost",
                        <<Callback("version-mismatch", h[i].rdVer, h[i].rdVal)>>)]
            /\ UNCHANGED sessions
    /\ UNCHANGED <<accountSeq, sessCreated, machines, messages, events, nreq>>
    /\ UNCHANGED routerVars
    /\ UNCHANGED auxVars
    /\ UNCHANGED outerVars

\* emitUpdate(update-session, all-interested-in-session); callback success
UpdateMetadataEmit(i) ==
    /\ h[i].kind = "update-metadata" /\ h[i].pc = "emit"
    /\ events' = Append(events,
         UpdateEvent(h[i].uid, h[i].updSeq, "update-session", h[i].id, "metadata",
                     h[i].val, NextVersion(h[i].ev),
                     Filter("all-interested-in-session", h[i].id), "none"))
    /\ h' = [h EXCEPT ![i] = Done(h[i], "success",
                 <<Callback("success", NextVersion(h[i].ev), h[i].val)>>)]
    /\ UNCHANGED <<accountSeq, sessions, sessCreated, machines, messages, nreq>>
    /\ UNCHANGED routerVars
    /\ UNCHANGED auxVars
    /\ UNCHANGED outerVars

\* ---- update-state --------------------------------------------------------
UpdateStateRead(i) ==
    /\ CanStart(i)
    /\ \E uid \in Clients, sid \in SessionIds, agentState \in AgentStates,
          expectedVersion \in ExpectedVersions :
         LET f == Frame("update-state", uid, sid, agentState, expectedVersion)
             session == FindSession(sid, uid) IN
         h' = [h EXCEPT ![i] =
                 IF ~IsString(agentState) /\ agentState # Null
                 THEN Done(f, "invalid", <<ErrorCallback>>)
                 ELSE IF session = NoRow THEN Done(f, "not-found", <<ErrorCallback>>)
                 ELSE IF ~VersionMatches(session.agentStateVersion, expectedVersion)
                 THEN Done([f EXCEPT !.rdVer = session.agentStateVersion, !.rdVal = session.agentState],
                           "mismatch",
                           <<Callback("version-mismatch", session.agentStateVersion,
                                      session.agentState)>>)
                 ELSE [f EXCEPT !.pc = "write", !.rdVer = session.agentStateVersion,
                                !.rdVal = session.agentState]]
    /\ nreq' = nreq + 1
    /\ UNCHANGED <<accountSeq, sessions, sessCreated, machines, messages, events>>
    /\ UNCHANGED routerVars
    /\ UNCHANGED auxVars
    /\ UNCHANGED outerVars

UpdateStateWrite(i) ==
    /\ h[i].kind = "update-state" /\ h[i].pc = "write"
    /\ IF AgentStateWriteMatches(h[i].id, h[i].ev)
       THEN /\ sessions' = [sessions EXCEPT ![h[i].id].agentState = h[i].val,
                                            ![h[i].id].agentStateVersion = NextVersion(h[i].ev)]
            /\ h' = [h EXCEPT ![i].pc = "allocUser"]
       ELSE /\ h' = [h EXCEPT ![i] = Done(h[i], "lost",
                        <<Callback("version-mismatch", h[i].rdVer, h[i].rdVal)>>)]
            /\ UNCHANGED sessions
    /\ UNCHANGED <<accountSeq, sessCreated, machines, messages, events, nreq>>
    /\ UNCHANGED routerVars
    /\ UNCHANGED auxVars
    /\ UNCHANGED outerVars

UpdateStateEmit(i) ==
    /\ h[i].kind = "update-state" /\ h[i].pc = "emit"
    /\ events' = Append(events,
         UpdateEvent(h[i].uid, h[i].updSeq, "update-session", h[i].id, "agentState",
                     h[i].val, NextVersion(h[i].ev),
                     Filter("all-interested-in-session", h[i].id), "none"))
    /\ h' = [h EXCEPT ![i] = Done(h[i], "success",
                 <<Callback("success", NextVersion(h[i].ev), h[i].val)>>)]
    /\ UNCHANGED <<accountSeq, sessions, sessCreated, machines, messages, nreq>>
    /\ UNCHANGED routerVars
    /\ UNCHANGED auxVars
    /\ UNCHANGED outerVars

\* ---- machine-update-metadata ---------------------------------------------
MachineUpdateMetadataRead(i) ==
    /\ CanStart(i)
    /\ \E uid \in Clients, mid \in MachineIds, metadata \in Vals \cup {Null},
          expectedVersion \in ExpectedVersions :
         LET f == [Frame("machine-update-metadata", uid, 0, metadata, expectedVersion)
                      EXCEPT !.mid = mid]
             machine == FindMachine(uid, mid) IN
         h' = [h EXCEPT ![i] =
                 IF ~IsString(metadata) THEN Done(f, "invalid", <<ErrorCallback>>)
                 ELSE IF machine = NoRow THEN Done(f, "not-found", <<ErrorCallback>>)
                 ELSE IF ~VersionMatches(machine.metadataVersion, expectedVersion)
                 THEN Done([f EXCEPT !.rdVer = machine.metadataVersion, !.rdVal = machine.metadata],
                           "mismatch",
                           <<Callback("version-mismatch", machine.metadataVersion,
                                      machine.metadata)>>)
                 ELSE [f EXCEPT !.pc = "write", !.rdVer = machine.metadataVersion,
                                !.rdVal = machine.metadata]]
    /\ nreq' = nreq + 1
    /\ UNCHANGED <<accountSeq, sessions, sessCreated, machines, messages, events>>
    /\ UNCHANGED routerVars
    /\ UNCHANGED auxVars
    /\ UNCHANGED outerVars

MachineUpdateMetadataWrite(i) ==
    /\ h[i].kind = "machine-update-metadata" /\ h[i].pc = "write"
    /\ IF MachineMetadataWriteMatches(h[i].uid, h[i].mid, h[i].ev)
       THEN /\ machines' = [machines EXCEPT
                   ![<<h[i].uid, h[i].mid>>].metadata = h[i].val,
                   ![<<h[i].uid, h[i].mid>>].metadataVersion = NextVersion(h[i].ev)]
            /\ h' = [h EXCEPT ![i].pc = "allocUser"]
       ELSE /\ h' = [h EXCEPT ![i].pc = "reread"]
            /\ UNCHANGED machines
    /\ UNCHANGED <<accountSeq, sessions, sessCreated, messages, events, nreq>>
    /\ UNCHANGED routerVars
    /\ UNCHANGED auxVars
    /\ UNCHANGED outerVars

\* count === 0: findFirst again and call back with the current row
MachineUpdateMetadataReread(i) ==
    /\ h[i].kind = "machine-update-metadata" /\ h[i].pc = "reread"
    /\ LET current == FindMachine(h[i].uid, h[i].mid) IN
       h' = [h EXCEPT ![i] = Done(h[i], "lost",
               <<IF current = NoRow THEN Callback("version-mismatch", 0, Null)
                 ELSE Callback("version-mismatch", current.metadataVersion,
                               current.metadata)>>)]
    /\ UNCHANGED <<accountSeq, sessions, sessCreated, machines, messages, events, nreq>>
    /\ UNCHANGED routerVars
    /\ UNCHANGED auxVars
    /\ UNCHANGED outerVars

\* emitUpdate(update-machine, machine-scoped-only); callback success
MachineUpdateMetadataEmit(i) ==
    /\ h[i].kind = "machine-update-metadata" /\ h[i].pc = "emit"
    /\ events' = Append(events,
         UpdateEvent(h[i].uid, h[i].updSeq, "update-machine", h[i].mid, "metadata",
                     h[i].val, NextVersion(h[i].ev),
                     Filter("machine-scoped-only", h[i].mid), "none"))
    /\ h' = [h EXCEPT ![i] = Done(h[i], "success",
                 <<Callback("success", NextVersion(h[i].ev), h[i].val)>>)]
    /\ UNCHANGED <<accountSeq, sessions, sessCreated, machines, messages, nreq>>
    /\ UNCHANGED routerVars
    /\ UNCHANGED auxVars
    /\ UNCHANGED outerVars

\* ---- machine-update-state ------------------------------------------------
MachineUpdateStateRead(i) ==
    /\ CanStart(i)
    /\ \E uid \in Clients, mid \in MachineIds, daemonState \in Vals \cup {Null},
          expectedVersion \in ExpectedVersions :
         LET f == [Frame("machine-update-state", uid, 0, daemonState, expectedVersion)
                      EXCEPT !.mid = mid]
             machine == FindMachine(uid, mid) IN
         h' = [h EXCEPT ![i] =
                 IF ~IsString(daemonState) THEN Done(f, "invalid", <<ErrorCallback>>)
                 ELSE IF machine = NoRow THEN Done(f, "not-found", <<ErrorCallback>>)
                 ELSE IF ~VersionMatches(machine.daemonStateVersion, expectedVersion)
                 THEN Done([f EXCEPT !.rdVer = machine.daemonStateVersion, !.rdVal = machine.daemonState],
                           "mismatch",
                           <<Callback("version-mismatch", machine.daemonStateVersion,
                                      machine.daemonState)>>)
                 ELSE [f EXCEPT !.pc = "write", !.rdVer = machine.daemonStateVersion,
                                !.rdVal = machine.daemonState]]
    /\ nreq' = nreq + 1
    /\ UNCHANGED <<accountSeq, sessions, sessCreated, machines, messages, events>>
    /\ UNCHANGED routerVars
    /\ UNCHANGED auxVars
    /\ UNCHANGED outerVars

MachineUpdateStateWrite(i) ==
    /\ h[i].kind = "machine-update-state" /\ h[i].pc = "write"
    /\ IF MachineStateWriteMatches(h[i].uid, h[i].mid, h[i].ev)
       THEN /\ machines' = [machines EXCEPT
                   ![<<h[i].uid, h[i].mid>>].daemonState = h[i].val,
                   ![<<h[i].uid, h[i].mid>>].daemonStateVersion = NextVersion(h[i].ev),
                   ![<<h[i].uid, h[i].mid>>].active = TRUE]
            /\ h' = [h EXCEPT ![i].pc = "allocUser"]
       ELSE /\ h' = [h EXCEPT ![i].pc = "reread"]
            /\ UNCHANGED machines
    /\ UNCHANGED <<accountSeq, sessions, sessCreated, messages, events, nreq>>
    /\ UNCHANGED routerVars
    /\ UNCHANGED auxVars
    /\ UNCHANGED outerVars

MachineUpdateStateReread(i) ==
    /\ h[i].kind = "machine-update-state" /\ h[i].pc = "reread"
    /\ LET current == FindMachine(h[i].uid, h[i].mid) IN
       h' = [h EXCEPT ![i] = Done(h[i], "lost",
               <<IF current = NoRow THEN Callback("version-mismatch", 0, Null)
                 ELSE Callback("version-mismatch", current.daemonStateVersion,
                               current.daemonState)>>)]
    /\ UNCHANGED <<accountSeq, sessions, sessCreated, machines, messages, events, nreq>>
    /\ UNCHANGED routerVars
    /\ UNCHANGED auxVars
    /\ UNCHANGED outerVars

MachineUpdateStateEmit(i) ==
    /\ h[i].kind = "machine-update-state" /\ h[i].pc = "emit"
    /\ events' = Append(events,
         UpdateEvent(h[i].uid, h[i].updSeq, "update-machine", h[i].mid, "daemonState",
                     h[i].val, NextVersion(h[i].ev),
                     Filter("machine-scoped-only", h[i].mid), "none"))
    /\ h' = [h EXCEPT ![i] = Done(h[i], "success",
                 <<Callback("success", NextVersion(h[i].ev), h[i].val)>>)]
    /\ UNCHANGED <<accountSeq, sessions, sessCreated, machines, messages, nreq>>
    /\ UNCHANGED routerVars
    /\ UNCHANGED auxVars
    /\ UNCHANGED outerVars

\* ---- POST /v1/machines ---------------------------------------------------
CreateMachineFind(i) ==
    /\ CanStart(i)
    /\ \E uid \in Clients, mid \in MachineIds, metadata \in InitialVals,
          daemonState \in InitialVals \cup {Null} :
         LET f == [Frame("create-machine", uid, 0, metadata, 0)
                      EXCEPT !.mid = mid, !.state = daemonState] IN
         h' = [h EXCEPT ![i] =
                 IF FindMachine(uid, mid) # NoRow
                 THEN Done(f, "existing", <<HttpReply(200)>>)
                 ELSE [f EXCEPT !.pc = "create"]]
    /\ nreq' = nreq + 1
    /\ UNCHANGED <<accountSeq, sessions, sessCreated, machines, messages, events>>
    /\ UNCHANGED routerVars
    /\ UNCHANGED auxVars
    /\ UNCHANGED outerVars

\* db.machine.create: a row with the same (accountId, id) makes it throw, and
\* the route has no try/catch
CreateMachineCreate(i) ==
    /\ h[i].kind = "create-machine" /\ h[i].pc = "create"
    /\ IF ~MachineKeyRejects(h[i].uid, h[i].mid)
       THEN /\ machines' = [machines EXCEPT ![<<h[i].uid, h[i].mid>>] =
                              NewMachineRow(h[i].val, h[i].state)]
            /\ h' = [h EXCEPT ![i].pc = "allocUser"]
       ELSE /\ h' = [h EXCEPT ![i] = Done(h[i], "throw", <<HttpReply(500)>>)]
            /\ UNCHANGED machines
    /\ UNCHANGED <<accountSeq, sessions, sessCreated, messages, events, nreq>>
    /\ UNCHANGED routerVars
    /\ UNCHANGED auxVars
    /\ UNCHANGED outerVars

\* emitUpdate(new-machine, user-scoped-only), then
\* emitUpdate(update-machine, machine-scoped-only); reply.send
CreateMachineEmit(i) ==
    /\ h[i].kind = "create-machine" /\ h[i].pc = "emit"
    /\ events' = events \o
         <<UpdateEvent(h[i].uid, h[i].updSeq, "new-machine", h[i].mid, "metadata",
                       h[i].val, 1, Filter("user-scoped-only", 0), "none"),
           UpdateEvent(h[i].uid, h[i].updSeq2, "update-machine", h[i].mid, "metadata",
                       h[i].val, 1, Filter("machine-scoped-only", h[i].mid), "none")>>
    /\ h' = [h EXCEPT ![i] = Done(h[i], "success", <<HttpReply(200)>>)]
    /\ UNCHANGED <<accountSeq, sessions, sessCreated, machines, messages, nreq>>
    /\ UNCHANGED routerVars
    /\ UNCHANGED auxVars
    /\ UNCHANGED outerVars

\* ---- DELETE /v1/sessions/:sessionId --------------------------------------
\* sessionDelete's transaction: ownership check, deleteMany of the messages,
\* delete of the session
\* mutant of MessagesAfterDelete: the messages are left behind
MessagesKept(sid) == messages

\* tx.sessionMessage.deleteMany({ where: { sessionId } })
MessagesAfterDelete(sid) == SelectSeq(messages, LAMBDA m : m.sessionId # sid)

\* GET /v1/sessions/:sessionId/messages: 404 unless the account owns the
\* session
GetMessagesStatus(uid, sid) == IF FindSession(sid, uid) = NoRow THEN 404 ELSE 200

DeleteSessionTx(i) ==
    /\ CanStart(i)
    /\ \E uid \in Clients, sid \in SessionIds :
         LET f == Frame("delete-session", uid, sid, Null, 0) IN
         IF FindSession(sid, uid) = NoRow
         THEN /\ h' = [h EXCEPT ![i] = Done(f, "not-found", <<HttpReply(404)>>)]
              /\ UNCHANGED <<sessions, messages>>
         ELSE /\ messages' = MessagesAfterDelete(sid)
              /\ sessions' = [sessions EXCEPT ![sid] = NoRow]
              /\ h' = [h EXCEPT ![i] = [f EXCEPT !.pc = "allocUser"]]
    /\ nreq' = nreq + 1
    /\ UNCHANGED <<accountSeq, sessCreated, machines, events>>
    /\ UNCHANGED routerVars
    /\ UNCHANGED auxVars
    /\ UNCHANGED outerVars

\* afterTx: emitUpdate(delete-session, user-scoped-only); reply.send
DeleteSessionEmit(i) ==
    /\ h[i].kind = "delete-session" /\ h[i].pc = "emit"
    /\ events' = Append(events,
         UpdateEvent(h[i].uid, h[i].updSeq, "delete-session", h[i].id, "none",
                     Null, 0, Filter("user-scoped-only", 0), "none"))
    /\ h' = [h EXCEPT ![i] = Done(h[i], "success", <<HttpReply(200)>>)]
    /\ UNCHANGED <<accountSeq, sessions, sessCreated, machines, messages, nreq>>
    /\ UNCHANGED routerVars
    /\ UNCHANGED auxVars
    /\ UNCHANGED outerVars

\* ---- message -------------------------------------------------------------
\* findUnique of the session; the account seq and the session seq are
\* allocated next, before the localId lookup
MessageRead(i) ==
    /\ CanStart(i)
    /\ \E uid \in Clients, sid \in SessionIds, localId \in LocalIds \cup {Null} :
         LET f == [Frame("message", uid, sid, Null, 0) EXCEPT !.localId = localId] IN
         h' = [h EXCEPT ![i] =
                 IF FindSession(sid, uid) = NoRow THEN Done(f, "not-found", <<>>)
                 ELSE [f EXCEPT !.pc = "allocUser"]]
    /\ nreq' = nreq + 1
    /\ UNCHANGED <<accountSeq, sessions, sessCreated, machines, messages, events>>
    /\ UNCHANGED routerVars
    /\ UNCHANGED auxVars
    /\ UNCHANGED outerVars

\* findFirst({ sessionId, localId }): an existing row ends the handler
MessageDedup(i) ==
    /\ h[i].kind = "message" /\ h[i].pc = "dedup"
    /\ h' = [h EXCEPT ![i] =
               IF FindMessage(h[i].id, h[i].localId) # {}
               THEN Done(h[i], "duplicate", <<>>)
               ELSE [h[i] EXCEPT !.pc = "create"]]
    /\ UNCHANGED <<accountSeq, sessions, sessCreated, machines, messages, events, nreq>>
    /\ UNCHANGED routerVars
    /\ UNCHANGED auxVars
    /\ UNCHANGED outerVars

\* db.sessionMessage.create: throws when the session row is gone or the
\* unique (sessionId, localId) index already holds the localId
MessageCreate(i) ==
    /\ h[i].kind = "message" /\ h[i].pc = "create"
    /\ IF ~SessionRelationRejects(h[i].id)
          /\ ~LocalIdIndexRejects(h[i].id, h[i].localId)
       THEN /\ messages' = Append(messages,
                              NewMessageRow(h[i].id, h[i].msgSeq, h[i].localId))
            /\ h' = [h EXCEPT ![i].pc = "emit"]
       ELSE /\ h' = [h EXCEPT ![i] = Done(h[i], "throw", <<>>)]
            /\ UNCHANGED messages
    /\ UNCHANGED <<accountSeq, sessions, sessCreated, machines, events, nreq>>
    /\ UNCHANGED routerVars
    /\ UNCHANGED auxVars
    /\ UNCHANGED outerVars

\* emitUpdate(new-message, all-interested-in-session, skipSenderConnection)
MessageEmit(i) ==
    /\ h[i].kind = "message" /\ h[i].pc = "emit"
    /\ events' = Append(events,
         UpdateEvent(h[i].uid, h[i].updSeq, "new-message", h[i].id, "message",
                     h[i].localId, h[i].msgSeq,
                     Filter("all-interested-in-session", h[i].id), "sender"))
    /\ h' = [h EXCEPT ![i] = Done(h[i], "success", <<>>)]
    /\ UNCHANGED <<accountSeq, sessions, sessCreated, machines, messages, nreq>>
    /\ UNCHANGED routerVars
    /\ UNCHANGED auxVars
    /\ UNCHANGED outerVars

\* ---- the handler returns -------------------------------------------------
Return(i) ==
    /\ h[i].pc = "done"
    /\ h' = [h EXCEPT ![i] = IdleFrame]
    /\ UNCHANGED <<accountSeq, sessions, sessCreated, machines, messages, events, nreq>>
    /\ UNCHANGED routerVars
    /\ UNCHANGED auxVars
    /\ UNCHANGED outerVars

\* the last continuation of a handler runs to the handler's return: nothing
\* runs between a handler's final callback and its return
Quiet == \A j \in Slots : h[j].pc # "done"

\* handlers of all kinds, suspended at their store calls and interleaved
Next ==
    \E i \in Slots :
        \/ Quiet /\ CreateSessionFind(i)
        \/ Quiet /\ CreateMachineFind(i)
        \/ Quiet /\ DeleteSessionTx(i)
        \/ Quiet /\ UpdateMetadataRead(i)
        \/ Quiet /\ UpdateStateRead(i)
        \/ Quiet /\ MachineUpdateMetadataRead(i)
        \/ Quiet /\ MachineUpdateStateRead(i)
        \/ Quiet /\ MessageRead(i)
        \/ Quiet /\ AllocateUserSeq(i)
        \/ Quiet /\ AllocateUserSeq2(i)
        \/ Quiet /\ AllocateSessionSeq(i)
        \/ Quiet /\ CreateSessionCreate(i)
        \/ Quiet /\ CreateSessionEmit(i)
        \/ Quiet /\ UpdateMetadataWrite(i)
        \/ Quiet /\ UpdateMetadataEmit(i)
        \/ Quiet /\ UpdateStateWrite(i)
        \/ Quiet /\ UpdateStateEmit(i)
        \/ Quiet /\ MachineUpdateMetadataWrite(i)
        \/ Quiet /\ MachineUpdateMetadataEmit(i)
        \/ Quiet /\ MachineUpdateStateWrite(i)
        \/ Quiet /\ MachineUpdateStateEmit(i)
        \/ Quiet /\ CreateMachineCreate(i)
        \/ Quiet /\ CreateMachineEmit(i)
        \/ Quiet /\ DeleteSessionEmit(i)
        \/ Quiet /\ MessageDedup(i)
        \/ Quiet /\ MessageCreate(i)
        \/ Quiet /\ MessageEmit(i)
        \/ Quiet /\ MachineUpdateMetadataReread(i)
        \/ Quiet /\ MachineUpdateStateReread(i)
        \/ Return(i)

Spec == Init /\ [][Next]_vars

\* POST /v1/sessions as the client sends it, with agentState null or a
\* ciphertext
CreateAgentStates == {Null, "a"}

NextCreate ==
    \E i \in Slots :
        \/ CreateSessionFindWith(i, CreateAgentStates)
        \/ AllocateUserSeq(i)
        \/ CreateSessionCreate(i)
        \/ CreateSessionEmit(i)
        \/ Return(i)

SpecCreate == Init /\ [][NextCreate]_vars

\* single writer: a request is taken only when no handler is in flight
NoneInFlight == \A j \in Slots : h[j].pc = "idle"

NextSerial ==
    \E i \in Slots :
        \/ NoneInFlight /\ CreateSessionFind(i)
        \/ NoneInFlight /\ CreateMachineFind(i)
        \/ NoneInFlight /\ DeleteSessionTx(i)
        \/ NoneInFlight /\ UpdateMetadataRead(i)
        \/ NoneInFlight /\ UpdateStateRead(i)
        \/ NoneInFlight /\ MachineUpdateMetadataRead(i)
        \/ NoneInFlight /\ MachineUpdateStateRead(i)
        \/ NoneInFlight /\ MessageRead(i)
        \/ AllocateUserSeq(i)
        \/ AllocateUserSeq2(i)
        \/ AllocateSessionSeq(i)
        \/ CreateSessionCreate(i)
        \/ CreateSessionEmit(i)
        \/ UpdateMetadataWrite(i)
        \/ UpdateMetadataEmit(i)
        \/ UpdateStateWrite(i)
        \/ UpdateStateEmit(i)
        \/ MachineUpdateMetadataWrite(i)
        \/ MachineUpdateMetadataEmit(i)
        \/ MachineUpdateStateWrite(i)
        \/ MachineUpdateStateEmit(i)
        \/ CreateMachineCreate(i)
        \/ CreateMachineEmit(i)
        \/ DeleteSessionEmit(i)
        \/ MessageDedup(i)
        \/ MessageCreate(i)
        \/ MessageEmit(i)
        \/ Return(i)

SpecSerial == Init /\ [][NextSerial]_vars

\* two connections send update-metadata for one session: the callbacks both
\* received stay in view until the handlers return
NextRace ==
    \E i \in Slots :
        \/ CreateSessionFind(i)
        \/ CreateSessionCreate(i)
        \/ CreateSessionEmit(i)
        \/ UpdateMetadataRead(i)
        \/ UpdateMetadataWrite(i)
        \/ UpdateMetadataEmit(i)
        \/ AllocateUserSeq(i)
        \/ Return(i)

SpecRace == Init /\ [][NextRace]_vars

\* ==== the event router and the sockets ====================================
\* The handlers above hand their update events to the router (events).  What
\* the router does with an emit call, and how connections come and go, is
\* modelled here; the emit calls take their parameters from the call sites
\* of the handlers.

\* the ClientConnection the connection handler builds for socket c once the
\* token is verified (verified.userId is the account the token was issued to)
ConnectionOf(c) ==
    [connectionType |-> sock[c].connectionType,
     userId |-> sock[c].token,
     sessionId |-> sock[c].sessionId,
     machineId |-> sock[c].machineId]

\* mutant of ShouldSendToConnection: all-interested-in-session lets
\* machine-scoped connections through
ShouldSendMachineToo(connection, filter) ==
    CASE filter.type = "all-interested-in-session" ->
           IF connection.connectionType = "session-scoped"
           THEN connection.sessionId = filter.id
           ELSE TRUE
      [] filter.type = "user-scoped-only" ->
           connection.connectionType = "user-scoped"
      [] filter.type = "machine-scoped-only" ->
           IF connection.connectionType = "user-scoped" THEN TRUE
           ELSE IF connection.connectionType = "machine-scoped"
           THEN connection.machineId = filter.id
           ELSE FALSE
      [] filter.type = "all-user-authenticated-connections" -> TRUE
      [] OTHER -> FALSE

\* mutant of ShouldSendToConnection: user-scoped-only also matches the
\* session-scoped connections
ShouldSendUserOnlyLeaks(connection, filter) ==
    CASE filter.type = "all-interested-in-session" ->
           IF connection.connectionType = "session-scoped"
           THEN connection.sessionId = filter.id
           ELSE IF connection.connectionType = "machine-scoped" THEN FALSE
           ELSE TRUE
      [] filter.type = "user-scoped-only" ->
           connection.connectionType # "machine-scoped"
      [] filter.type = "machine-scoped-only" ->
           IF connection.connectionType = "user-scoped" THEN TRUE
           ELSE IF connection.connectionType = "machine-scoped"
           THEN connection.machineId = filter.id
           ELSE FALSE
      [] filter.type = "all-user-authenticated-connections" -> TRUE
      [] OTHER -> FALSE

\* EventRouter.shouldSendToConnection(connection, filter)
ShouldSendToConnection(connection, filter) ==
    CASE filter.type = "all-interested-in-session" ->
           IF connection.connectionType = "session-scoped"
           THEN connection.sessionId = filter.id
           ELSE IF connection.connectionType = "machine-scoped" THEN FALSE
           ELSE TRUE
      [] filter.type = "user-scoped-only" ->
           connection.connectionType = "user-scoped"
      [] filter.type = "machine-scoped-only" ->
           IF connection.connectionType = "user-scoped" THEN TRUE
           ELSE IF connection.connectionType = "machine-scoped"
           THEN connection.machineId = filter.id
           ELSE FALSE
      [] filter.type = "all-user-authenticated-connections" -> TRUE
      [] OTHER -> FALSE

\* connection.socket.emit(eventName, payload): the packet of a socket that is
\* disconnected or whose transport no longer carries packets is dropped
SocketDelivers(c) == sock[c].open /\ sock[c].writable

\* mutant of IsSkipped: the sender is not skipped
NeverSkipped(c, skip) == FALSE

\* if (params.skipSenderConnection && connection === params.skipSenderConnection)
IsSkipped(c, skip) == c = skip

\* mutant of LoopReaches: a send that fails ends the loop
LoopEndsAtFailure(to, c) == \A d \in to : d < c => SocketDelivers(d)

\* the for loop over the connections: socket.emit on a socket that does not
\* deliver returns normally, so the loop reaches every connection
LoopReaches(to, c) == TRUE

\* the body of a payload: its type and, for machine-activity, the machine
\* and the active flag
Body(t) == [t |-> t, id |-> "none", active |-> FALSE]

\* buildMachineActivityEphemeral(machineId, active, activeAt)
MachineActivity(machineId, active) ==
    [t |-> "machine-activity", id |-> machineId, active |-> active]

\* an emit call made by a request handler rather than by the connection
\* handler of a socket
FromHandler == 0

\* EventRouter.emit, over the connection map conns: an account without
\* connections returns at once; otherwise the call is logged with the socket
\* whose connection handler made it (from), the connections the router held
\* for the account (held) and the ones it sent to (to), and the payload
\* arrives on the sockets that deliver
Emit(conns, from, uid, eventName, body, filter, skip) ==
    IF conns[uid] = {}
    THEN UNCHANGED <<sent, recv>>
    ELSE LET to == {c \in conns[uid] :
                      /\ ~IsSkipped(c, skip)
                      /\ ShouldSendToConnection(ConnectionOf(c), filter)}
             arrived == {c \in to : LoopReaches(to, c) /\ SocketDelivers(c)} IN
         /\ sent' = Append(sent, [from |-> from,
                                  userId |-> uid, eventName |-> eventName,
                                  t |-> body.t, body |-> body,
                                  filter |-> filter, skip |-> skip,
                                  held |-> conns[uid], to |-> to,
                                  arrived |-> arrived])
         /\ recv' = [c \in ConnIds |->
                       IF c \in arrived
                       THEN Append(recv[c], Len(sent) + 1) ELSE recv[c]]

\* mutant of AddConnection: one set of connections for all accounts
AddConnectionShared(conns, uid, c) == [u \in Accounts |-> conns[u] \cup {c}]

\* EventRouter.addConnection(userId, connection)
AddConnection(conns, uid, c) == [conns EXCEPT ![uid] = conns[uid] \cup {c}]

\* EventRouter.removeConnection(userId, connection)
RemoveConnection(conns, uid, c) == [conns EXCEPT ![uid] = conns[uid] \ {c}]

NoSkip == 0

\* the auth fields a client can send in the handshake
Tokens == Accounts \cup {InvalidToken, Missing}

ClientTypes == {"session-scoped", "user-scoped", "machine-scoped", Missing}

\* the connectionType the handler gives the connection: the handshake
\* fields decide it
ConnectionType(clientType, sessionId, machineId) ==
    IF clientType = "session-scoped" /\ sessionId # NoSessionId
    THEN "session-scoped"
    ELSE IF clientType = "machine-scoped" /\ machineId # Missing
    THEN "machine-scoped"
    ELSE "user-scoped"

\* io.on("connection"): the checks before the token is verified; a socket
\* that passes them awaits auth.verifyToken
SocketConnectAs(c, clientTypes) ==
    /\ sock[c].phase = "none"
    /\ \A d \in ConnIds : d < c => sock[d].phase # "none"
    /\ \E token \in Tokens, clientType \in clientTypes,
          sessionId \in ScopeSessionIds \cup {NoSessionId},
          machineId \in ScopeMachineIds \cup {Missing} :
         \* fields the handler never reads for this client type are absent
         /\ clientType # "session-scoped" => sessionId = NoSessionId
         /\ clientType # "machine-scoped" => machineId = Missing
         /\ sock' = [sock EXCEPT ![c] =
              IF token = Missing
              THEN RejectedSocket("Missing authentication token")
              ELSE IF clientType = "session-scoped" /\ sessionId = NoSessionId
              THEN RejectedSocket("Session ID required for session-scoped clients")
              ELSE IF clientType = "machine-scoped" /\ machineId = Missing
              THEN RejectedSocket("Machine ID required for machine-scoped clients")
              ELSE [NoSocket EXCEPT !.phase = "verifying", !.token = token,
                                    !.connectionType =
                                        ConnectionType(clientType, sessionId, machineId),
                                    !.sessionId = sessionId,
                                    !.machineId = machineId,
                                    !.open = TRUE, !.writable = TRUE]]
    /\ UNCHANGED <<userConnections, sent, recv>>
    /\ UNCHANGED storeVars
    /\ UNCHANGED auxVars
    /\ UNCHANGED outerVars

SocketConnect(c) == SocketConnectAs(c, ClientTypes)

\* auth.verifyToken returns: an invalid token disconnects the socket; a valid
\* one builds the connection, adds it to the router, broadcasts
\* machine-activity for a machine-scoped client and only then registers the
\* disconnect handler.  The socket may have disconnected in the meantime.
VerifyToken(c) ==
    /\ sock[c].phase = "verifying"
    /\ IF sock[c].token = InvalidToken
       THEN /\ sock' = [sock EXCEPT ![c] = RejectedSocket("Invalid authentication token")]
            /\ UNCHANGED <<userConnections, sent, recv>>
       ELSE LET connection == ConnectionOf(c)
                uid == connection.userId
                conns == AddConnection(userConnections, uid, c) IN
            /\ sock' = [sock EXCEPT ![c].phase = "registered"]
            /\ userConnections' = conns
            /\ IF connection.connectionType = "machine-scoped"
               THEN Emit(conns, c, uid, "ephemeral",
                         MachineActivity(connection.machineId, TRUE),
                         Filter("user-scoped-only", 0), NoSkip)
               ELSE UNCHANGED <<sent, recv>>
    /\ UNCHANGED storeVars
    /\ UNCHANGED auxVars
    /\ UNCHANGED outerVars

\* mutant of ListenersKey: one registry for all accounts
ListenersShared(uid) == "u1"

\* rpcListeners.get(userId): the registry the handlers of a socket of
\* account uid are given
ListenersKey(uid) == uid

\* mutant of RemoveListeners: the disconnect clears the whole registry
RemoveAllListeners(listeners, c) == [m \in Methods |-> NoTarget]

\* rpcHandler's disconnect listener: every method registered by the socket
\* is deleted
RemoveListeners(listeners, c) ==
    [m \in Methods |-> IF listeners[m] = c THEN NoTarget ELSE listeners[m]]

\* the socket disconnects: the disconnect listeners, when they are
\* registered, remove the connection, broadcast machine-activity for a
\* machine and remove the socket's RPC registrations
SocketDisconnect(c) ==
    /\ sock[c].phase \in {"verifying", "registered"} /\ sock[c].open
    /\ sock' = [sock EXCEPT ![c].open = FALSE, ![c].writable = FALSE]
    /\ IF sock[c].phase = "registered"
       THEN LET uid == ConnectionOf(c).userId
                conns == RemoveConnection(userConnections, uid, c) IN
            /\ userConnections' = conns
            /\ IF ConnectionOf(c).connectionType = "machine-scoped"
               THEN Emit(conns, c, uid, "ephemeral",
                         MachineActivity(ConnectionOf(c).machineId, FALSE),
                         Filter("user-scoped-only", 0), NoSkip)
               ELSE UNCHANGED <<sent, recv>>
            /\ rpcListeners' = [rpcListeners EXCEPT ![ListenersKey(uid)] =
                                  RemoveListeners(rpcListeners[ListenersKey(uid)], c)]
       ELSE UNCHANGED <<userConnections, sent, recv, rpcListeners>>
    /\ UNCHANGED storeVars
    /\ UNCHANGED <<rpcCall, ephemerals>>
    /\ UNCHANGED outerVars

\* the transport of a connected socket stops carrying packets; the server
\* notices at the ping timeout, when the socket disconnects
TransportFails(c) ==
    /\ sock[c].phase = "registered" /\ sock[c].open /\ sock[c].writable
    /\ sock' = [sock EXCEPT ![c].writable = FALSE]
    /\ UNCHANGED <<userConnections, sent, recv>>
    /\ UNCHANGED storeVars
    /\ UNCHANGED auxVars
    /\ UNCHANGED outerVars

\* the emit calls of the handlers: event, filter type, skipSenderConnection
Site(eventName, t, filterType, skipSender) ==
    [eventName |-> eventName, t |-> t, filterType |-> filterType,
     skipSender |-> skipSender]

EmitSites ==
    {Site("update", "new-session", "user-scoped-only", FALSE),
     Site("update", "delete-session", "user-scoped-only", FALSE),
     Site("update", "new-machine", "user-scoped-only", FALSE),
     Site("update", "update-machine", "machine-scoped-only", FALSE),
     Site("update", "update-session", "all-interested-in-session", FALSE),
     Site("update", "new-message", "all-interested-in-session", TRUE),
     Site("ephemeral", "activity", "user-scoped-only", FALSE),
     Site("ephemeral", "machine-activity", "user-scoped-only", FALSE),
     \* emitUpdate / emitEphemeral without a recipientFilter
     Site("update", "other", "all-user-authenticated-connections", FALSE)}

\* the recipientFilter of a call site, for the session or machine it names
SiteFilter(site, sid, mid) ==
    Filter(site.filterType,
           CASE site.filterType = "all-interested-in-session" -> sid
             [] site.filterType = "machine-scoped-only" -> mid
             [] OTHER -> 0)

\* the sockets whose handlers for account uid are installed: a frame of uid
\* comes from one of them, which may disconnect before its handler emits
HandlersOf(uid) ==
    {c \in ConnIds : sock[c].phase = "registered" /\ ConnectionOf(c).userId = uid}

HandlerEmits == Cardinality({k \in 1..Len(sent) : sent[k].from = FromHandler})

\* a handler of account uid calls eventRouter.emitUpdate / emitEphemeral
HandlerEmit ==
    /\ HandlerEmits < MaxEmit
    /\ \E uid \in Accounts, site \in EmitSites,
          sid \in FilterSessionIds, mid \in FilterMachineIds :
         /\ site.filterType # "all-interested-in-session" => sid = 1
         /\ site.filterType # "machine-scoped-only" => mid = "m1"
         /\ IF site.skipSender
            THEN \E sender \in HandlersOf(uid) :
                   Emit(userConnections, FromHandler, uid, site.eventName, Body(site.t),
                        SiteFilter(site, sid, mid), sender)
            ELSE Emit(userConnections, FromHandler, uid, site.eventName, Body(site.t),
                      SiteFilter(site, sid, mid), NoSkip)
    /\ UNCHANGED <<sock, userConnections>>
    /\ UNCHANGED storeVars
    /\ UNCHANGED auxVars
    /\ UNCHANGED outerVars

NextRouter ==
    \/ \E c \in ConnIds : SocketConnect(c)
    \/ \E c \in ConnIds : VerifyToken(c)
    \/ \E c \in ConnIds : SocketDisconnect(c)
    \/ \E c \in ConnIds : TransportFails(c)
    \/ HandlerEmit

SpecRouter == Init /\ [][NextRouter]_vars

\* ==== heartbeats ==========================================================

HeartbeatKinds == {"session-alive", "session-end", "machine-alive"}

\* typeof data.time !== 'number'
InvalidTime(time) == time = NotANumber

\* if (t > Date.now()) t = Date.now()
Clamp(time) == IF time > Now THEN Now ELSE time

\* mutant of Stale: no heartbeat is too old
StaleNever(t) == FALSE

\* t < Date.now() - 1000 * 60 * 10
Stale(t) == t < Now - StaleWindow

\* a heartbeat up to its first store call: the checks of the time, then the
\* lookup of the row under the connection's account
Heartbeat(f, row) ==
    IF InvalidTime(f.time) THEN Done(f, "invalid", <<>>)
    ELSE IF Stale(Clamp(f.time)) THEN Done(f, "stale", <<>>)
    ELSE IF row = NoRow THEN Done(f, "notfound", <<>>)
    ELSE [f EXCEPT !.pc = "update", !.time = Clamp(f.time)]

\* session-alive and session-end: validation and db.session.findUnique
SessionHeartbeat(i, kind) ==
    /\ CanStart(i)
    /\ \E uid \in Clients, sid \in SessionIds, time \in HeartbeatTimes :
         h' = [h EXCEPT ![i] =
                 Heartbeat([Frame(kind, uid, sid, Null, 0) EXCEPT !.time = time],
                           FindSession(sid, uid))]
    /\ nreq' = nreq + 1
    /\ UNCHANGED <<accountSeq, sessions, sessCreated, machines, messages, events>>
    /\ UNCHANGED routerVars
    /\ UNCHANGED auxVars
    /\ UNCHANGED outerVars

SessionAlive(i) == SessionHeartbeat(i, "session-alive")

SessionEnd(i) == SessionHeartbeat(i, "session-end")

\* machine-alive: validation and db.machine.findFirst
MachineAlive(i) ==
    /\ CanStart(i)
    /\ \E uid \in Clients, mid \in MachineIds, time \in HeartbeatTimes :
         h' = [h EXCEPT ![i] =
                 Heartbeat([Frame("machine-alive", uid, 0, Null, 0)
                                EXCEPT !.mid = mid, !.time = time],
                           FindMachine(uid, mid))]
    /\ nreq' = nreq + 1
    /\ UNCHANGED <<accountSeq, sessions, sessCreated, machines, messages, events>>
    /\ UNCHANGED routerVars
    /\ UNCHANGED auxVars
    /\ UNCHANGED outerVars

\* db.session.update / db.machine.update of lastActiveAt and active; the
\* update of a row that is gone throws and the handler's catch logs it
HeartbeatUpdate(i) ==
    /\ h[i].kind \in HeartbeatKinds /\ h[i].pc = "update"
    /\ IF h[i].kind = "machine-alive"
       THEN /\ machines' = [machines EXCEPT
                   ![<<h[i].uid, h[i].mid>>].lastActiveAt = h[i].time,
                   ![<<h[i].uid, h[i].mid>>].active = TRUE]
            /\ h' = [h EXCEPT ![i].pc = "emit"]
            /\ UNCHANGED sessions
       ELSE /\ IF sessions[h[i].id] # NoRow
               THEN /\ sessions' = [sessions EXCEPT
                           ![h[i].id].lastActiveAt = h[i].time,
                           ![h[i].id].active = (h[i].kind = "session-alive")]
                    /\ h' = [h EXCEPT ![i].pc = "emit"]
               ELSE /\ h' = [h EXCEPT ![i] = Done(h[i], "throw", <<>>)]
                    /\ UNCHANGED sessions
            /\ UNCHANGED machines
    /\ UNCHANGED <<accountSeq, sessCreated, messages, events, nreq, ephemerals>>
    /\ UNCHANGED <<rpcListeners, rpcCall>>
    /\ UNCHANGED routerVars
    /\ UNCHANGED outerVars

\* buildSessionActivityEphemeral / buildMachineActivityEphemeral
ActivityEphemeral(f) ==
    IF f.kind = "machine-alive"
    THEN [userId |-> f.uid, type |-> "machine-activity", sid |-> 0, mid |-> f.mid,
          active |-> TRUE, activeAt |-> f.time, filter |-> Filter("user-scoped-only", 0)]
    ELSE [userId |-> f.uid, type |-> "activity", sid |-> f.id, mid |-> "none",
          active |-> (f.kind = "session-alive"), activeAt |-> f.time,
          filter |-> Filter("user-scoped-only", 0)]

\* eventRouter.emitEphemeral to the user-scoped connections
HeartbeatEmit(i) ==
    /\ h[i].kind \in HeartbeatKinds /\ h[i].pc = "emit"
    /\ ephemerals' = Append(ephemerals, ActivityEphemeral(h[i]))
    /\ h' = [h EXCEPT ![i] = Done(h[i], "success", <<>>)]
    /\ UNCHANGED <<accountSeq, sessions, sessCreated, machines, messages, events, nreq>>
    /\ UNCHANGED <<rpcListeners, rpcCall>>
    /\ UNCHANGED routerVars
    /\ UNCHANGED outerVars

\* heartbeats among the requests that create and delete the rows they name
NextHeartbeat ==
    \E i \in Slots :
        \/ CreateSessionFind(i)
        \/ CreateSessionCreate(i)
        \/ CreateSessionEmit(i)
        \/ CreateMachineFind(i)
        \/ CreateMachineCreate(i)
        \/ CreateMachineEmit(i)
        \/ AllocateUserSeq(i)
        \/ AllocateUserSeq2(i)
        \/ DeleteSessionTx(i)
        \/ DeleteSessionEmit(i)
        \/ SessionAlive(i)
        \/ SessionEnd(i)
        \/ MachineAlive(i)
        \/ HeartbeatUpdate(i)
        \/ HeartbeatEmit(i)
        \/ Return(i)

SpecHeartbeat == Init /\ [][NextHeartbeat]_vars

\* ==== RPC between the sockets of an account ==============================

\* the account a socket's handlers were installed for
UserOf(c) == ConnectionOf(c).userId

\* frames reach the handlers of a socket once they are installed, while the
\* socket is connected
HandlersInstalled(c) == sock[c].phase = "registered" /\ sock[c].open

\* !method || typeof method !== 'string'
InvalidMethod(method) == method = Missing

\* rpcListeners.set(method, socket)
Registered(listeners, method, c) == [listeners EXCEPT ![method] = c]

\* mutant of Unregistered: the method is deleted whoever holds it
UnregisteredByAnyone(listeners, method, c) == [listeners EXCEPT ![method] = NoTarget]

\* rpcListeners.delete(method) when the registration belongs to the socket
Unregistered(listeners, method, c) ==
    IF listeners[method] = c THEN [listeners EXCEPT ![method] = NoTarget]
    ELSE listeners

\* rpc-register: an invalid method is answered rpc-error to the socket, a
\* valid one is set in the account's registry and answered rpc-registered
RpcRegister(c, method) ==
    /\ HandlersInstalled(c)
    /\ IF InvalidMethod(method) THEN UNCHANGED rpcListeners
       ELSE rpcListeners' = [rpcListeners EXCEPT ![ListenersKey(UserOf(c))] =
                Registered(rpcListeners[ListenersKey(UserOf(c))], method, c)]
    /\ UNCHANGED <<rpcCall, ephemerals>>
    /\ UNCHANGED routerVars
    /\ UNCHANGED storeVars
    /\ UNCHANGED outerVars

\* rpc-unregister: an invalid method is answered rpc-error to the socket, a
\* valid one is answered rpc-unregistered whether or not it was deleted
RpcUnregister(c, method) ==
    /\ HandlersInstalled(c)
    /\ IF InvalidMethod(method) THEN UNCHANGED rpcListeners
       ELSE rpcListeners' = [rpcListeners EXCEPT ![ListenersKey(UserOf(c))] =
                Unregistered(rpcListeners[ListenersKey(UserOf(c))], method, c)]
    /\ UNCHANGED <<rpcCall, ephemerals>>
    /\ UNCHANGED routerVars
    /\ UNCHANGED storeVars
    /\ UNCHANGED outerVars

RpcFailure(error) == [ok |-> FALSE, result |-> "none", error |-> error]

RpcSuccess(response) == [ok |-> TRUE, result |-> response, error |-> "none"]

\* targetSocket.connected
Connected(target) == sock[target].open

\* targetSocket && targetSocket.connected
Available(listeners, method) ==
    listeners[method] # NoTarget /\ Connected(listeners[method])

\* mutant of SameSocket: the check is missing
SameSocketNever(target, c) == FALSE

\* targetSocket === socket
SameSocket(target, c) == target = c

\* rpc-call up to its await: the checks in the order of the handler, each
\* answered by the callback, and otherwise the rpc-request sent to the target
\* socket.  The client passes an acknowledgement callback.
RpcCall(c, method) ==
    /\ HandlersInstalled(c)
    /\ rpcCall[c].pc = "idle"
    /\ LET listeners == rpcListeners[ListenersKey(UserOf(c))]
           answered(error) == [pc |-> "done", method |-> method, target |-> NoTarget,
                               cbs |-> <<RpcFailure(error)>>] IN
       rpcCall' = [rpcCall EXCEPT ![c] =
           IF InvalidMethod(method)
           THEN answered("Invalid parameters: method is required")
           ELSE IF ~Available(listeners, method)
           THEN answered("RPC method not available")
           ELSE IF SameSocket(listeners[method], c)
           THEN answered("Cannot call RPC on the same socket")
           ELSE [pc |-> "awaiting", method |-> method, target |-> listeners[method],
                 cbs |-> <<>>]]
    /\ UNCHANGED <<rpcListeners, ephemerals>>
    /\ UNCHANGED routerVars
    /\ UNCHANGED storeVars
    /\ UNCHANGED outerVars

\* the target acknowledges the rpc-request: emitWithAck resolves and the
\* callback is given the response
RpcAck(c, response) ==
    /\ rpcCall[c].pc = "awaiting"
    /\ Connected(rpcCall[c].target)
    /\ rpcCall' = [rpcCall EXCEPT ![c].pc = "done",
                                  ![c].cbs = Append(@, RpcSuccess(response))]
    /\ UNCHANGED <<rpcListeners, ephemerals>>
    /\ UNCHANGED routerVars
    /\ UNCHANGED storeVars
    /\ UNCHANGED outerVars

\* emitWithAck rejects, at the latest when the 30 second timeout fires: the
\* callback is given the message of the error
RpcFails(c) ==
    /\ rpcCall[c].pc = "awaiting"
    /\ rpcCall' = [rpcCall EXCEPT ![c].pc = "done",
                                  ![c].cbs = Append(@, RpcFailure("operation has timed out"))]
    /\ UNCHANGED <<rpcListeners, ephemerals>>
    /\ UNCHANGED routerVars
    /\ UNCHANGED storeVars
    /\ UNCHANGED outerVars

\* the handler has returned; the socket may send its next rpc-call
RpcReturn(c) ==
    /\ rpcCall[c].pc = "done"
    /\ rpcCall' = [rpcCall EXCEPT ![c] = NoCall]
    /\ UNCHANGED <<rpcListeners, ephemerals>>
    /\ UNCHANGED routerVars
    /\ UNCHANGED storeVars
    /\ UNCHANGED outerVars

\* rpcHandler is given the user id, the socket and the registry: it never
\* reads the connection type, so the sockets here are user-scoped clients
RpcClientTypes == {"user-scoped"}

NextRpc ==
    \/ \E c \in ConnIds : SocketConnectAs(c, RpcClientTypes)
    \/ \E c \in ConnIds : VerifyToken(c)
    \/ \E c \in ConnIds : SocketDisconnect(c)
    \/ \E c \in ConnIds, method \in Methods \cup {Missing} : RpcRegister(c, method)
    \/ \E c \in ConnIds, method \in Methods \cup {Missing} : RpcUnregister(c, method)
    \/ \E c \in ConnIds, method \in Methods \cup {Missing} : RpcCall(c, method)
    \/ \E c \in ConnIds, response \in AckPayloads : RpcAck(c, response)
    \/ \E c \in ConnIds : RpcFails(c)
    \/ \E c \in ConnIds : RpcReturn(c)

SpecRpc == Init /\ [][NextRpc]_vars

\* the ack timeout of a forwarded rpc-request is a timer: it fires unless the
\* call was answered before
SpecRpcFair == SpecRpc /\ \A c \in ConnIds : WF_vars(RpcFails(c))

\* ==== pairing: AccountAuthRequest ========================================

\* auth.createToken(userId): a signed payload { user: userId }
CreateToken(userId) == [user |-> userId]

\* auth.verifyToken(token) of a token the generator made
VerifiedUser(token) == token.user

NoToken == [user |-> NoAccount]

\* the row the upsert creates: no response, no responseAccountId
NewAuthRequest == [response |-> Null, responseAccountId |-> NoAccount]

\* a value in a JavaScript condition: null and the empty string are false
Truthy(v) == v # Null /\ v # "" /\ v # NoAccount

\* tweetnacl.box.publicKeyLength === publicKey.length
ValidKey(publicKey) == publicKey # InvalidKey

PollAnswer(publicKey, code, state, token, response) ==
    [publicKey |-> publicKey, code |-> code, state |-> state, token |-> token,
     response |-> response]

\* POST /v1/auth/account/request: the upsert creates the row on the first
\* poll; the answer is authorized when the row read has a response and a
\* responseAccountId, requested otherwise
AuthRequestPoll ==
    /\ nreq < MaxReq
    /\ \E publicKey \in PublicKeys \cup {InvalidKey} :
         IF ~ValidKey(publicKey)
         THEN /\ polls' = Append(polls, PollAnswer(publicKey, 401, "none", NoToken, Null))
              /\ UNCHANGED authRequests
         ELSE LET answer == IF authRequests[publicKey] = NoRow THEN NewAuthRequest
                            ELSE authRequests[publicKey] IN
              /\ authRequests' = [authRequests EXCEPT ![publicKey] = answer]
              /\ polls' = Append(polls,
                    IF Truthy(answer.response) /\ Truthy(answer.responseAccountId)
                    THEN PollAnswer(publicKey, 200, "authorized",
                                    CreateToken(answer.responseAccountId), answer.response)
                    ELSE PollAnswer(publicKey, 200, "requested", NoToken, Null))
    /\ nreq' = nreq + 1
    /\ UNCHANGED <<accountSeq, sessions, sessCreated, machines, messages, events, h>>
    /\ UNCHANGED routerVars
    /\ UNCHANGED auxVars
    /\ UNCHANGED cliVars

\* POST /v1/auth/account/response up to its update: the key check, the
\* findUnique, and the test of the response of the row that was read
AuthResponseFind(i) ==
    /\ CanStart(i)
    /\ \E uid \in Accounts, publicKey \in PublicKeys \cup {InvalidKey},
          response \in Responses :
         LET f == [Frame("auth-response", uid, 0, response, 0)
                       EXCEPT !.publicKey = publicKey] IN
         h' = [h EXCEPT ![i] =
                 IF ~ValidKey(publicKey) THEN Done(f, "invalid", <<HttpReply(401)>>)
                 ELSE IF authRequests[publicKey] = NoRow
                 THEN Done(f, "not-found", <<HttpReply(404)>>)
                 ELSE IF Truthy(authRequests[publicKey].response)
                 THEN Done(f, "answered", <<HttpReply(200)>>)
                 ELSE [f EXCEPT !.pc = "update"]]
    /\ nreq' = nreq + 1
    /\ UNCHANGED <<accountSeq, sessions, sessCreated, machines, messages, events>>
    /\ UNCHANGED routerVars
    /\ UNCHANGED auxVars
    /\ UNCHANGED authVars
    /\ UNCHANGED cliVars

\* db.accountAuthRequest.update({ where: { id } }): response and
\* responseAccountId are written whatever the row holds by now
AuthResponseUpdate(i) ==
    /\ h[i].kind = "auth-response" /\ h[i].pc = "update"
    /\ authRequests' = [authRequests EXCEPT ![h[i].publicKey] =
           [response |-> h[i].val, responseAccountId |-> h[i].uid]]
    /\ h' = [h EXCEPT ![i] = Done(h[i], "success", <<HttpReply(200)>>)]
    /\ UNCHANGED <<accountSeq, sessions, sessCreated, machines, messages, events, nreq>>
    /\ UNCHANGED polls
    /\ UNCHANGED routerVars
    /\ UNCHANGED auxVars
    /\ UNCHANGED cliVars

NextAuth ==
    \/ AuthRequestPoll
    \/ \E i \in Slots : AuthResponseFind(i)
    \/ \E i \in Slots : AuthResponseUpdate(i)
    \/ \E i \in Slots : Return(i)

SpecAuth == Init /\ [][NextAuth]_vars

\* ==== ping ================================================================

\* the events the handlers installed on a socket listen to
ListenedEvents ==
    {"rpc-register", "rpc-unregister", "rpc-call", "update-metadata", "update-state",
     "session-alive", "message", "session-end", "machine-alive",
     "machine-update-metadata", "machine-update-state", "disconnect"}

Listens(event) == event \in ListenedEvents

\* flush(): resolves at once when the socket is not connected, and otherwise
\* emits ping with an acknowledgement callback and starts the 10 s timer
ClientFlush(c) ==
    /\ sock[c].phase \in {"verifying", "registered"}
    /\ flush[c].pc = "idle"
    /\ flush' = [flush EXCEPT ![c] =
           IF ~sock[c].open THEN [pc |-> "done", ping |-> "none", by |-> "not-connected"]
           ELSE [pc |-> "waiting", ping |-> "sent", by |-> "none"]]
    /\ UNCHANGED storeVars
    /\ UNCHANGED routerVars
    /\ UNCHANGED auxVars
    /\ UNCHANGED authVars
    /\ UNCHANGED pingRest

\* the ping frame reaches the server's socket: it is acknowledged by a
\* listener of the event, and dropped when there is none or the socket is
\* gone
PingDispatch(c) ==
    /\ flush[c].ping = "sent"
    /\ flush' = [flush EXCEPT ![c].ping =
           IF HandlersInstalled(c) /\ Listens("ping") THEN "acked" ELSE "dropped"]
    /\ UNCHANGED storeVars
    /\ UNCHANGED routerVars
    /\ UNCHANGED auxVars
    /\ UNCHANGED authVars
    /\ UNCHANGED pingRest

\* the promise resolves: by the acknowledgement callback when the ping was
\* acknowledged, or by setTimeout(() => resolve(), 10000)
FlushResolve(c) ==
    /\ flush[c].pc = "waiting"
    /\ \E by \in {"timeout"} \cup (IF flush[c].ping = "acked" THEN {"ack"} ELSE {}) :
         flush' = [flush EXCEPT ![c].pc = "done", ![c].by = by]
    /\ UNCHANGED storeVars
    /\ UNCHANGED routerVars
    /\ UNCHANGED auxVars
    /\ UNCHANGED authVars
    /\ UNCHANGED pingRest

NextPing ==
    \/ \E c \in ConnIds : SocketConnectAs(c, RpcClientTypes)
    \/ \E c \in ConnIds : VerifyToken(c)
    \/ \E c \in ConnIds : SocketDisconnect(c)
    \/ \E c \in ConnIds : ClientFlush(c)
    \/ \E c \in ConnIds : PingDispatch(c)
    \/ \E c \in ConnIds : FlushResolve(c)

SpecPing == Init /\ [][NextPing]_vars

\* ==== MessageQueue2 =======================================================

\* the while loop of collectBatch: the number of items it shifts
RECURSIVE SameModeRun(_, _)
SameModeRun(q, targetModeHash) ==
    IF q # <<>> /\ Head(q).modeHash = targetModeHash /\ ~Head(q).isolate
    THEN 1 + SameModeRun(Tail(q), targetModeHash)
    ELSE 0

\* the number of items collectBatch shifts off the queue
ShiftedAll(q) == Len(q)
Shifted(q) ==
    IF q = <<>> THEN 0
    ELSE IF Head(q).isolate THEN 1
    ELSE SameModeRun(q, Head(q).modeHash)

\* sameModeMessages.join('\n'): the texts in the order they were shifted
Join(items) == [k \in 1..Len(items) |-> items[k].message]

\* collectBatch: the value it returns
CollectBatch(q) ==
    IF q = <<>> THEN NullBatch
    ELSE [null |-> FALSE, message |-> Join(SubSeq(q, 1, Shifted(q))),
          mode |-> Head(q).mode, hash |-> Head(q).modeHash,
          isolate |-> Head(q).isolate]

\* collectBatch: the queue it leaves
AfterBatch(q) == SubSeq(q, Shifted(q) + 1, Len(q))

\* this.queue.unshift(item)
UnshiftedLast(q, item) == Append(q, item)
Unshifted(q, item) == <<item>> \o q

\* if (this.waiter) { const waiter = this.waiter; this.waiter = null; waiter(value) }
Wake(value) ==
    /\ waiter' = NoWaiter
    /\ calls' = IF waiter = NoWaiter THEN calls
                ELSE [calls EXCEPT ![waiter].pc = "resumed", ![waiter].has = value]

QueueFrame ==
    /\ UNCHANGED storeVars
    /\ UNCHANGED routerVars
    /\ UNCHANGED auxVars
    /\ UNCHANGED authVars
    /\ UNCHANGED queueRest

\* push(message, mode): throws on a closed queue
Push(mode) ==
    /\ npush < MaxPush
    /\ npush' = npush + 1
    /\ IF closed THEN UNCHANGED <<queue, waiter, calls, pending>>
       ELSE /\ queue' = Append(queue, Item(npush + 1, mode, FALSE))
            /\ pending' = Append(pending, npush + 1)
            /\ Wake(TRUE)
    /\ UNCHANGED closed
    /\ QueueFrame

\* pushImmediate(message, mode): the same body as push
PushImmediate(mode) ==
    /\ npush < MaxPush
    /\ npush' = npush + 1
    /\ IF closed THEN UNCHANGED <<queue, waiter, calls, pending>>
       ELSE /\ queue' = Append(queue, Item(npush + 1, mode, FALSE))
            /\ pending' = Append(pending, npush + 1)
            /\ Wake(TRUE)
    /\ UNCHANGED closed
    /\ QueueFrame

\* pushIsolateAndClear(message, mode): empties the queue first
PushIsolateAndClear(mode) ==
    /\ npush < MaxPush
    /\ npush' = npush + 1
    /\ IF closed THEN UNCHANGED <<queue, waiter, calls, pending>>
       ELSE /\ queue' = <<Item(npush + 1, mode, TRUE)>>
            /\ pending' = <<npush + 1>>
            /\ Wake(TRUE)
    /\ UNCHANGED closed
    /\ QueueFrame

\* unshift(message, mode)
Unshift(mode) ==
    /\ npush < MaxPush
    /\ npush' = npush + 1
    /\ IF closed THEN UNCHANGED <<queue, waiter, calls, pending>>
       ELSE /\ queue' = Unshifted(queue, Item(npush + 1, mode, FALSE))
            /\ pending' = <<npush + 1>> \o pending
            /\ Wake(TRUE)
    /\ UNCHANGED closed
    /\ QueueFrame

\* reset(): queue = [], closed = false, waiter = null
QueueReset ==
    /\ queue' = <<>>
    /\ closed' = FALSE
    /\ waiter' = NoWaiter
    /\ pending' = <<>>
    /\ UNCHANGED <<calls, npush>>
    /\ QueueFrame

\* close(): closed = true and the waiter is called with false
QueueClose ==
    /\ closed' = TRUE
    /\ Wake(FALSE)
    /\ UNCHANGED <<queue, pending, npush>>
    /\ QueueFrame

\* waitForMessagesAndGetAsString(abortSignal) up to its await: a batch when
\* the queue has items, null when closed or aborted, and otherwise
\* waitForMessages stores its waiterFunc in this.waiter
WaitForMessages(w) ==
    /\ calls[w].pc = "idle"
    /\ IF queue # <<>>
       THEN /\ calls' = [calls EXCEPT ![w].pc = "done", ![w].result = CollectBatch(queue)]
            /\ queue' = AfterBatch(queue)
            /\ pending' = SubSeq(pending, Len(CollectBatch(queue).message) + 1,
                                  Len(pending))
            /\ UNCHANGED waiter
       ELSE IF closed \/ calls[w].aborted
       THEN /\ calls' = [calls EXCEPT ![w].pc = "done", ![w].result = NullBatch]
            /\ UNCHANGED <<queue, pending, waiter>>
       ELSE /\ calls' = [calls EXCEPT ![w].pc = "blocked"]
            /\ waiter' = w
            /\ UNCHANGED <<queue, pending>>
    /\ UNCHANGED <<closed, npush>>
    /\ QueueFrame

\* signal.abort(): the abortHandler of a call that is still waiting clears
\* this.waiter if it is its own and resolves false
Aborting(w) ==
    IF calls[w].pc = "blocked"
    THEN /\ calls' = [calls EXCEPT ![w].aborted = TRUE, ![w].pc = "resumed",
                                   ![w].has = FALSE]
         /\ waiter' = IF waiter = w THEN NoWaiter ELSE waiter
    ELSE /\ calls' = [calls EXCEPT ![w].aborted = TRUE]
         /\ UNCHANGED waiter

\* the signal of call w aborts
Abort(w) ==
    /\ ~calls[w].aborted
    /\ calls[w].pc # "done"
    /\ Aborting(w)
    /\ UNCHANGED <<queue, closed, pending, npush>>
    /\ QueueFrame

\* the continuation after the await: null when resolved with false, and
\* otherwise collectBatch on the queue as it is by now
WaitResume(w) ==
    /\ calls[w].pc = "resumed"
    /\ IF calls[w].has
       THEN /\ calls' = [calls EXCEPT ![w].pc = "done", ![w].result = CollectBatch(queue)]
            /\ queue' = AfterBatch(queue)
            /\ pending' = SubSeq(pending, Len(CollectBatch(queue).message) + 1,
                                  Len(pending))
       ELSE /\ calls' = [calls EXCEPT ![w].pc = "done", ![w].result = NullBatch]
            /\ UNCHANGED <<queue, pending>>
    /\ UNCHANGED <<waiter, closed, npush>>
    /\ QueueFrame

\* the caller takes the result; the slot is free for its next call
WaitReturn(w) ==
    /\ calls[w].pc = "done"
    /\ calls' = [calls EXCEPT ![w] = IdleCall]
    /\ UNCHANGED <<queue, waiter, closed, pending, npush>>
    /\ QueueFrame

NextQueue ==
    \/ \E mode \in Modes : Push(mode)
    \/ \E mode \in Modes : PushImmediate(mode)
    \/ \E mode \in Modes : PushIsolateAndClear(mode)
    \/ \E mode \in Modes : Unshift(mode)
    \/ QueueReset
    \/ QueueClose
    \/ \E w \in Calls : WaitForMessages(w)
    \/ \E w \in Calls : Abort(w)
    \/ \E w \in Calls : WaitResume(w)
    \/ \E w \in Calls : WaitReturn(w)

SpecQueue == Init /\ [][NextQueue]_vars

\* ==== ApiSessionClient =====================================================

\* session.metadataVersion / session.agentStateVersion of a stored session
StoredVersion(sid, field) ==
    IF field = "metadata" THEN sessions[sid].metadataVersion
    ELSE sessions[sid].agentStateVersion

WriteMatches(sid, field, expectedVersion) ==
    IF field = "metadata" THEN MetadataWriteMatches(sid, expectedVersion)
    ELSE AgentStateWriteMatches(sid, expectedVersion)

\* the answer is sent after the events emitted so far
Answered(r, answer) ==
    [r EXCEPT !.pc = "answered", !.answer = answer, !.after = Len(events)]

ClientFrame ==
    /\ UNCHANGED routerVars
    /\ UNCHANGED auxVars
    /\ UNCHANGED authVars
    /\ UNCHANGED clientRest

\* new ApiSessionClient(token, session): the versions of the session it is
\* given, and its socket connects
ClientConstruct(sid) ==
    /\ client.sid = NoSessionId
    /\ FindSession(sid, ClientAccount) # NoRow
    /\ client' = [sid |-> sid,
                  version |-> [field \in Fields |-> StoredVersion(sid, field)]]
    /\ cursor' = Len(events)
    /\ UNCHANGED own
    /\ UNCHANGED storeVars
    /\ ClientFrame

\* updateMetadata / updateAgentState under its lock, up to emitWithAck: the
\* request carries the cached version
ClientUpdate(field) ==
    /\ client.sid # NoSessionId
    /\ own[field].pc = "idle"
    /\ nreq < MaxReq
    /\ \E value \in InitialVals :
         own' = [own EXCEPT ![field] =
                    [IdleRequest EXCEPT !.pc = "sent", !.ev = client.version[field],
                                        !.val = value]]
    /\ UNCHANGED <<client, cursor>>
    /\ UNCHANGED storeVars
    /\ ClientFrame

\* the update-metadata / update-state handler on the client's request:
\* findUnique and version check
ServeRead(field) ==
    /\ own[field].pc = "sent"
    /\ LET session == FindSession(client.sid, ClientAccount) IN
       own' = [own EXCEPT ![field] =
                 IF session = NoRow
                 THEN IF field = "metadata" THEN [@ EXCEPT !.pc = "unanswered"]
                      ELSE Answered(@, ErrorCallback)
                 ELSE IF ~VersionMatches(StoredVersion(client.sid, field), @.ev)
                 THEN Answered(@, Callback("version-mismatch",
                                           StoredVersion(client.sid, field), Null))
                 ELSE [@ EXCEPT !.pc = "write",
                                !.rdVer = StoredVersion(client.sid, field)]]
    /\ nreq' = nreq + 1
    /\ UNCHANGED <<accountSeq, sessions, sessCreated, machines, messages, events, h>>
    /\ UNCHANGED <<client, cursor>>
    /\ ClientFrame

\* updateMany where { id, version }; on count 0 the answer carries the
\* version read before the write
ServeWrite(field) ==
    /\ own[field].pc = "write"
    /\ IF WriteMatches(client.sid, field, own[field].ev)
       THEN /\ sessions' =
                 IF field = "metadata"
                 THEN [sessions EXCEPT ![client.sid].metadata = own[field].val,
                          ![client.sid].metadataVersion = NextVersion(own[field].ev)]
                 ELSE [sessions EXCEPT ![client.sid].agentState = own[field].val,
                          ![client.sid].agentStateVersion = NextVersion(own[field].ev)]
            /\ own' = [own EXCEPT ![field].pc = "allocUser"]
       ELSE /\ own' = [own EXCEPT ![field] =
                         Answered(@, Callback("version-mismatch", @.rdVer, Null))]
            /\ UNCHANGED sessions
    /\ UNCHANGED <<accountSeq, sessCreated, machines, messages, events, h, nreq>>
    /\ UNCHANGED <<client, cursor>>
    /\ ClientFrame

\* allocateUserSeq(userId)
ServeAllocate(field) ==
    /\ own[field].pc = "allocUser"
    /\ accountSeq' = [accountSeq EXCEPT ![ClientAccount] = SeqIncrement(@)]
    /\ own' = [own EXCEPT ![field].pc = "emit",
                          ![field].updSeq = accountSeq'[ClientAccount]]
    /\ UNCHANGED <<sessions, sessCreated, machines, messages, events, h, nreq>>
    /\ UNCHANGED <<client, cursor>>
    /\ ClientFrame

\* emitUpdate(update-session, all-interested-in-session), then callback success
ServeEmit(field) ==
    /\ own[field].pc = "emit"
    /\ events' = Append(events,
         UpdateEvent(ClientAccount, own[field].updSeq, "update-session", client.sid,
                     field, own[field].val, NextVersion(own[field].ev),
                     Filter("all-interested-in-session", client.sid), "none"))
    /\ own' = [own EXCEPT ![field] =
                 [@ EXCEPT !.pc = "answered",
                           !.answer = Callback("success", NextVersion(own[field].ev),
                                               own[field].val),
                           !.after = Len(events')]]
    /\ UNCHANGED <<accountSeq, sessions, sessCreated, machines, messages, h, nreq>>
    /\ UNCHANGED <<client, cursor>>
    /\ ClientFrame

\* the socket carries events and answers in the order they were sent: an
\* answer sent after n events arrives after these and before the next one
AnswerDue(field) == own[field].pc = "answered" /\ own[field].after = cursor

\* the client's socket is session-scoped: of the updates it gets those of
\* its session that all-interested-in-session sends
Delivered(e) ==
    e.userId = ClientAccount /\ e.filter = Filter("all-interested-in-session", client.sid)

\* the version after socket.on('update') took an update-session event
VersionAfterEvent(e, field) ==
    IF Delivered(e) /\ e.t = "update-session" /\ e.field = field
       /\ e.version > client.version[field]
    THEN e.version ELSE client.version[field]

\* socket.on('update') on the next event
ClientOnUpdate ==
    /\ client.sid # NoSessionId
    /\ cursor < Len(events)
    /\ \A field \in Fields : ~AnswerDue(field)
    /\ client' = [client EXCEPT !.version =
                     [field \in Fields |-> VersionAfterEvent(events[cursor + 1], field)]]
    /\ cursor' = cursor + 1
    /\ UNCHANGED own
    /\ UNCHANGED storeVars
    /\ ClientFrame

\* the version after the answer of emitWithAck: taken as it is on success,
\* and when it is greater on version-mismatch
VersionAfterAnswer(answer, cached) ==
    IF answer.result = "success" THEN answer.version
    ELSE IF answer.result = "version-mismatch" /\ answer.version > cached
    THEN answer.version
    ELSE cached

\* the continuation of updateMetadata / updateAgentState after emitWithAck;
\* the lock is released, and backoff calls again after version-mismatch
ClientOnAnswer(field) ==
    /\ AnswerDue(field)
    /\ client' = [client EXCEPT !.version[field] =
                     VersionAfterAnswer(own[field].answer, @)]
    /\ own' = [own EXCEPT ![field] = IdleRequest]
    /\ UNCHANGED cursor
    /\ UNCHANGED storeVars
    /\ ClientFrame

\* the handlers of the requests of other connections run one at a time
PeerSlots == {1}

NextClient ==
    \/ \E i \in PeerSlots : CreateSessionFindWith(i, CreateAgentStates)
    \/ \E i \in PeerSlots : AllocateUserSeq(i)
    \/ \E i \in PeerSlots : CreateSessionCreate(i)
    \/ \E i \in PeerSlots : CreateSessionEmit(i)
    \/ \E i \in PeerSlots : UpdateMetadataRead(i)
    \/ \E i \in PeerSlots : UpdateMetadataWrite(i)
    \/ \E i \in PeerSlots : UpdateMetadataEmit(i)
    \/ \E i \in PeerSlots : UpdateStateRead(i)
    \/ \E i \in PeerSlots : UpdateStateWrite(i)
    \/ \E i \in PeerSlots : UpdateStateEmit(i)
    \/ \E i \in PeerSlots : Return(i)
    \/ \E sid \in SessionIds : ClientConstruct(sid)
    \/ \E field \in Fields : ClientUpdate(field)
    \/ \E field \in Fields : ServeRead(field)
    \/ \E field \in Fields : ServeWrite(field)
    \/ \E field \in Fields : ServeAllocate(field)
    \/ \E field \in Fields : ServeEmit(field)
    \/ ClientOnUpdate
    \/ \E field \in Fields : ClientOnAnswer(field)

SpecClient == Init /\ [][NextClient]_vars

\* ==== claudeRemoteLauncher ================================================

\* the call of waitForMessagesAndGetAsString nextMessage makes
LauncherCall == 1

LauncherFrame ==
    /\ UNCHANGED storeVars
    /\ UNCHANGED routerVars
    /\ UNCHANGED auxVars
    /\ UNCHANGED authVars
    /\ UNCHANGED launcherRest

\* while (!exitReason): a launch starts with a new AbortController and no
\* mode, and claudeRemote asks for its initial message; with an exitReason
\* the launcher returns
LaunchStart ==
    /\ launcher.pc = "top"
    /\ IF launcher.exitReason = NoReason
       THEN /\ launcher' = [launcher EXCEPT !.pc = "nextMessage", !.hasMode = FALSE,
                                            !.modeHash = NoHash, !.controller = TRUE]
            /\ calls' = [calls EXCEPT ![LauncherCall].aborted = FALSE]
       ELSE /\ launcher' = [launcher EXCEPT !.pc = "returned"]
            /\ UNCHANGED calls
    /\ UNCHANGED <<queue, waiter, closed, pending, npush, taken, delivered>>
    /\ LauncherFrame

\* loop(): the launcher is called, and called again after 'switch', with
\* locals of its own
LoopCalls ==
    /\ launcher.pc \in {"none", "returned"}
    /\ launcher' = NewLauncher
    /\ UNCHANGED <<taken, delivered>>
    /\ UNCHANGED queueVars
    /\ LauncherFrame

\* nextMessage with a pending batch: it is returned and pending is cleared;
\* without one the queue is asked
NextMessage ==
    /\ launcher.pc = "nextMessage"
    /\ IF ~launcher.pending.null
       THEN /\ launcher' = [launcher EXCEPT !.pc = "running", !.pending = NullBatch]
            /\ delivered' = Append(delivered, launcher.pending.message)
       ELSE /\ launcher' = [launcher EXCEPT !.pc = "asking"]
            /\ UNCHANGED delivered
    /\ UNCHANGED taken
    /\ UNCHANGED queueVars
    /\ LauncherFrame

\* session.queue.waitForMessagesAndGetAsString(controller.signal)
AskQueue == launcher.pc = "asking" /\ WaitForMessages(LauncherCall)

\* the continuation of that call after its await
AskResume == launcher.pc = "asking" /\ WaitResume(LauncherCall)

\* nextMessage after the queue answered: null ends the launch; a batch of
\* another mode hash or an isolated one is kept in pending and ends the
\* launch; any other batch sets the mode of the launch and is returned
TakeBatch ==
    /\ launcher.pc = "asking"
    /\ calls[LauncherCall].pc = "done"
    /\ LET msg == calls[LauncherCall].result IN
       /\ IF msg.null
          THEN /\ launcher' = [launcher EXCEPT !.pc = "ended"]
               /\ UNCHANGED <<taken, delivered>>
          ELSE IF (launcher.hasMode /\ msg.hash # launcher.modeHash) \/ msg.isolate
          THEN /\ launcher' = [launcher EXCEPT !.pc = "ended", !.pending = msg]
               /\ taken' = Append(taken, msg.message)
               /\ UNCHANGED delivered
          ELSE /\ launcher' = [launcher EXCEPT !.pc = "running", !.hasMode = TRUE,
                                               !.modeHash = msg.hash]
               /\ taken' = Append(taken, msg.message)
               /\ delivered' = Append(delivered, msg.message)
    /\ calls' = [calls EXCEPT ![LauncherCall] =
                    [IdleCall EXCEPT !.aborted = calls[LauncherCall].aborted]]
    /\ UNCHANGED <<queue, waiter, closed, pending, npush>>
    /\ LauncherFrame

\* claudeRemote on a result of the query: onReady, and it asks for the next
\* message
QueryResult ==
    /\ launcher.pc = "running"
    /\ launcher' = [launcher EXCEPT !.pc = "nextMessage"]
    /\ UNCHANGED <<taken, delivered>>
    /\ UNCHANGED queueVars
    /\ LauncherFrame

\* claudeRemote returns or throws while the query runs: /clear, the end of
\* the response, the AbortError of an aborted query, an error of the process
QueryEnds ==
    /\ launcher.pc = "running"
    /\ launcher' = [launcher EXCEPT !.pc = "ended"]
    /\ UNCHANGED <<taken, delivered>>
    /\ UNCHANGED queueVars
    /\ LauncherFrame

\* after claudeRemote, and the finally of the launch: abortController = null
LaunchEnd ==
    /\ launcher.pc = "ended"
    /\ launcher' = [launcher EXCEPT !.pc = "top", !.controller = FALSE,
                                    !.hasMode = FALSE, !.modeHash = NoHash]
    /\ UNCHANGED <<taken, delivered>>
    /\ UNCHANGED queueVars
    /\ LauncherFrame

\* abort(): abortController.abort() when there is one that is not aborted
AbortController ==
    IF launcher.controller /\ ~calls[LauncherCall].aborted
    THEN Aborting(LauncherCall)
    ELSE UNCHANGED <<calls, waiter>>

\* the abort RPC: doAbort
AbortRpc ==
    /\ launcher.pc # "none"
    /\ AbortController
    /\ UNCHANGED <<launcher, taken, delivered>>
    /\ UNCHANGED <<queue, closed, pending, npush>>
    /\ LauncherFrame

\* the switch RPC: doSwitch
SwitchRpc ==
    /\ launcher.pc # "none"
    /\ launcher' = [launcher EXCEPT !.exitReason =
                       IF @ = NoReason THEN "switch" ELSE @]
    /\ AbortController
    /\ UNCHANGED <<taken, delivered>>
    /\ UNCHANGED <<queue, closed, pending, npush>>
    /\ LauncherFrame

\* no continuation of the launcher is due: it waits for the queue or for the
\* query, or was not called yet. The events of the socket are taken then
AtRest ==
    \/ launcher.pc \in {"none", "running"}
    \/ launcher.pc = "asking" /\ calls[LauncherCall].pc = "blocked"

\* session.onUserMessage: /clear and /compact go through pushIsolateAndClear,
\* any other message through push
NextLauncher ==
    \/ \E mode \in Modes : AtRest /\ Push(mode)
    \/ \E mode \in Modes : AtRest /\ PushIsolateAndClear(mode)
    \/ LaunchStart
    \/ LoopCalls
    \/ NextMessage
    \/ AskQueue
    \/ AskResume
    \/ TakeBatch
    \/ QueryResult
    \/ QueryEnds
    \/ LaunchEnd
    \/ AtRest /\ AbortRpc
    \/ AtRest /\ SwitchRpc

SpecLauncher == Init /\ [][NextLauncher]_vars

\* ==== properties ==========================================================
OccKinds == {"update-metadata", "update-state",
             "machine-update-metadata", "machine-update-state"}

Range(q) == {q[k] : k \in DOMAIN q}

\* the row an optimistic-concurrency frame names, for the frame's account
RowOf(f) ==
    IF f.kind \in {"update-metadata", "update-state"}
    THEN FindSession(f.id, f.uid) ELSE FindMachine(f.uid, f.mid)

\* the version and the value of the field the frame is about, in row r
FieldVersion(f, r) ==
    CASE f.kind = "update-metadata" -> r.metadataVersion
      [] f.kind = "update-state" -> r.agentStateVersion
      [] f.kind = "machine-update-metadata" -> r.metadataVersion
      [] f.kind = "machine-update-state" -> r.daemonStateVersion

FieldValue(f, r) ==
    CASE f.kind = "update-metadata" -> r.metadata
      [] f.kind = "update-state" -> r.agentState
      [] f.kind = "machine-update-metadata" -> r.metadata
      [] f.kind = "machine-update-state" -> r.daemonState

ValidParams(f) == IsString(f.val) \/ (f.kind = "update-state" /\ f.val = Null)

\* slot i takes a frame in this step
Arrives(i) == h[i].pc = "idle" /\ h'[i].pc # "idle"

\* ---- C1 ------------------------------------------------------------------
\* C1: every step leaves each stored version field of a row that exists before
\* and after the step unchanged or raises it by exactly 1, and the step of a
\* handler whose conditional write is accepted stores expectedVersion + 1.
VersionStep ==
    /\ \A s \in SessionIds :
         (sessions[s] # NoRow /\ sessions'[s] # NoRow) =>
           /\ sessions'[s].metadataVersion - sessions[s].metadataVersion \in {0, 1}
           /\ sessions'[s].agentStateVersion - sessions[s].agentStateVersion \in {0, 1}
    /\ \A k \in DOMAIN machines :
         (machines[k] # NoRow /\ machines'[k] # NoRow) =>
           /\ machines'[k].metadataVersion - machines[k].metadataVersion \in {0, 1}
           /\ machines'[k].daemonStateVersion - machines[k].daemonStateVersion \in {0, 1}
    /\ \A i \in Slots :
         (h[i].kind \in OccKinds /\ h[i].pc = "write" /\ h'[i].pc = "allocUser") =>
           FieldVersion(h[i], RowOf(h[i])') = h[i].ev + 1

C1_VersionsStepByOne == [][VersionStep]_vars

C1_Witness ==
    /\ \E s \in SessionIds : sessions[s] # NoRow /\ sessions[s].metadataVersion = 3
    /\ \E i \in Slots : h[i].kind = "update-metadata" /\ h[i].pc = "allocUser"

\* ---- C2 ------------------------------------------------------------------
\* the two frames of the race, both answered: valid frames of the session's
\* owner for the same session with the same expectedVersion and different
\* metadata, both found the session and it was at expectedVersion when at
\* least one of them read it, and the only other request so far is the one that created the session
RacePair(i, j) ==
    /\ i # j /\ nreq = 3
    /\ h[i].pc = "done" /\ h[j].pc = "done"
    /\ h[i].kind = "update-metadata" /\ h[j].kind = "update-metadata"
    /\ h[i].id = h[j].id /\ h[i].ev = h[j].ev
    /\ IsString(h[i].val) /\ IsString(h[j].val) /\ h[i].val # h[j].val
    /\ FindSession(h[i].id, h[i].uid) # NoRow /\ h[j].uid = h[i].uid
    /\ h[i].path \in {"lost", "success", "mismatch"}
    /\ h[j].path \in {"lost", "success", "mismatch"}
    /\ (h[i].rdVer = h[i].ev \/ h[j].rdVer = h[j].ev)

\* C2: when both frames of a version race have been answered, one callback
\* is success with version expectedVersion + 1, the other is version-mismatch,
\* the row is at expectedVersion + 1 with the winner's metadata, and exactly
\* one update-session event has been emitted.
C2_VersionRace ==
    \A i, j \in Slots :
        RacePair(i, j) =>
          \E w \in {i, j} : \E l \in {i, j} \ {w} :
            /\ h[w].cbs = <<Callback("success", h[w].ev + 1, h[w].val)>>
            /\ Len(h[l].cbs) = 1 /\ h[l].cbs[1].result = "version-mismatch"
            /\ sessions[h[w].id].metadataVersion = h[w].ev + 1
            /\ sessions[h[w].id].metadata = h[w].val
            /\ Cardinality({k \in 1..Len(events) : events[k].t = "update-session"}) = 1
            /\ \A k \in 1..Len(events) :
                 events[k].t = "update-session" =>
                   /\ events[k].id = h[w].id /\ events[k].field = "metadata"
                   /\ events[k].version = h[w].ev + 1 /\ events[k].value = h[w].val

\* both orders of the race: the loser lost the conditional write, or read the
\* session after the winner's write
C2_Witness ==
    \E i, j \in Slots : RacePair(i, j) /\ h[j].path = "lost"

\* ---- C3 ------------------------------------------------------------------
\* C3: a handler whose conditional write affected no row answers
\* version-mismatch with the version and the value the row has when it
\* answers, so the reported version is not the expectedVersion of the frame.
C3_LostWriteReportsLatest ==
    \A i \in Slots :
        (h[i].pc = "done" /\ h[i].kind \in OccKinds /\ h[i].path = "lost"
         /\ RowOf(h[i]) # NoRow) =>
          /\ Len(h[i].cbs) = 1
          /\ h[i].cbs[1] = Callback("version-mismatch",
                                    FieldVersion(h[i], RowOf(h[i])),
                                    FieldValue(h[i], RowOf(h[i])))
          /\ h[i].cbs[1].version # h[i].ev

\* ---- C4 ------------------------------------------------------------------
\* C4: a frame with valid parameters that names a row of its account whose
\* stored version differs from expectedVersion is answered, in the step it
\* arrives, version-mismatch with the stored version and value, and that step
\* changes no row, no account seq and emits no event.
MismatchStep ==
    \A i \in Slots :
        (/\ Arrives(i) /\ h'[i].kind \in OccKinds /\ ValidParams(h'[i])
         /\ RowOf(h'[i]) # NoRow
         /\ FieldVersion(h'[i], RowOf(h'[i])) # h'[i].ev) =>
          /\ h'[i].pc = "done"
          /\ h'[i].cbs = <<Callback("version-mismatch",
                                    FieldVersion(h'[i], RowOf(h'[i])),
                                    FieldValue(h'[i], RowOf(h'[i])))>>
          /\ UNCHANGED <<accountSeq, sessions, sessCreated, machines, messages, events>>

C4_MismatchWritesNothing == [][MismatchStep]_vars

C4_Witness ==
    \E i \in Slots : /\ h[i].pc = "done" /\ h[i].kind \in OccKinds
                     /\ h[i].path = "mismatch" /\ RowOf(h[i]) # NoRow
                     /\ FieldVersion(h[i], RowOf(h[i])) # h[i].ev

\* ---- C5 ------------------------------------------------------------------
\* the update-session events emitted for version n of a field of session s
SessionEvents(s, field, n) ==
    {k \in 1..Len(events) : /\ events[k].t = "update-session" /\ events[k].id = s
                            /\ events[k].field = field /\ events[k].version = n}

\* a handler that has written version n of the field and has yet to emit
EmitPending(s, field, n) ==
    \E i \in Slots :
        /\ h[i].kind = (IF field = "metadata" THEN "update-metadata" ELSE "update-state")
        /\ h[i].id = s /\ h[i].ev + 1 = n /\ h[i].pc \in {"allocUser", "emit"}

NotFoundStep ==
    \A i \in Slots :
        (/\ Arrives(i) /\ h'[i].kind \in OccKinds /\ ValidParams(h'[i])
         /\ RowOf(h'[i]) = NoRow) =>
          /\ h'[i].pc = "done"
          /\ Len(h'[i].cbs) = 1 /\ h'[i].cbs[1].result = "error"
          /\ UNCHANGED <<accountSeq, sessions, sessCreated, machines, messages, events>>

C6_NotFoundAnswersError == [][NotFoundStep]_vars

\* ---- C7 ------------------------------------------------------------------
\* C7: a handler of a frame that carries a callback never calls it twice and
\* has called it exactly once when it returns.
C7_CallbackExactlyOnce ==
    \A i \in Slots :
        h[i].kind \in OccKinds =>
          /\ Len(h[i].cbs) <= 1
          /\ (h[i].pc = "done" => Len(h[i].cbs) = 1)

\* ---- C8 ------------------------------------------------------------------
\* the value an allocation step hands to its handler
Allocated(i) ==
    CASE h[i].pc = "allocUser" -> h'[i].updSeq
      [] h[i].pc = "allocUser2" -> h'[i].updSeq2
      [] h[i].pc = "allocSession" -> h'[i].msgSeq

\* C8: an allocation step raises its own counter by exactly 1 and hands the
\* new value to its handler, it changes no other counter, and no counter of a
\* row that stays changes in any other step.
AllocStep ==
    /\ \A i \in Slots :
         (h[i].pc \in {"allocUser", "allocUser2"} /\ h'[i] # h[i]) =>
           /\ accountSeq' = [accountSeq EXCEPT ![h[i].uid] = accountSeq[h[i].uid] + 1]
           /\ Allocated(i) = accountSeq[h[i].uid] + 1
           /\ \A s \in SessionIds :
                (sessions[s] # NoRow /\ sessions'[s] # NoRow) =>
                  sessions'[s].seq = sessions[s].seq
    /\ \A i \in Slots :
         (h[i].pc = "allocSession" /\ h'[i].pc \notin {"allocSession", "done"}) =>
           /\ sessions'[h[i].id].seq = sessions[h[i].id].seq + 1
           /\ Allocated(i) = sessions[h[i].id].seq + 1
           /\ accountSeq' = accountSeq
           /\ \A s \in SessionIds \ {h[i].id} :
                (sessions[s] # NoRow /\ sessions'[s] # NoRow) =>
                  sessions'[s].seq = sessions[s].seq
    /\ (\A i \in Slots : h[i].pc \notin {"allocUser", "allocUser2", "allocSession"}
                         \/ h'[i] = h[i]) =>
         /\ accountSeq' = accountSeq
         /\ \A s \in SessionIds :
              (sessions[s] # NoRow /\ sessions'[s] # NoRow) =>
                sessions'[s].seq = sessions[s].seq

C8_AtomicAllocation == [][AllocStep]_vars

C8_Witness ==
    \E i, j \in Slots :
        /\ i # j /\ h[i].uid = h[j].uid
        /\ h[i].pc = "emit" /\ h[j].pc = "emit"
        /\ h[j].updSeq = h[i].updSeq + 1

\* ---- C9 ------------------------------------------------------------------
\* C9: no two update events emitted for one account carry the same seq.
C9_NoSharedSeq ==
    \A k1, k2 \in 1..Len(events) :
        (k1 # k2 /\ events[k1].userId = events[k2].userId) =>
          events[k1].seq # events[k2].seq

C9_Witness ==
    \E k1, k2 \in 1..Len(events) :
        /\ k1 < k2 /\ events[k1].userId = events[k2].userId
        /\ events[k1].seq > events[k2].seq

\* ---- C10 -----------------------------------------------------------------
\* the update events of account u, in emission order
EventsOf(u) == SelectSeq(events, LAMBDA e : e.userId = u)

\* C10: with a single writer, the k-th update event of an account carries
\* seq k, and when no handler is in flight every value taken from
\* Account.seq is carried by an event.
C10_SerialGapFree ==
    \A u \in Accounts :
        /\ \A k \in 1..Len(EventsOf(u)) : EventsOf(u)[k].seq = k
        /\ (NoneInFlight => Len(EventsOf(u)) = accountSeq[u])

\* ---- C11 -----------------------------------------------------------------
\* C11: the update events of one account are handed to the event router in
\* account-seq order: of two events of the same account, the one emitted
\* first has the smaller seq.
C11_EmittedInSeqOrder ==
    \A k, l \in 1..Len(events) :
        (k < l /\ events[k].userId = events[l].userId)
            => events[k].seq < events[l].seq

\* ---- C12 -----------------------------------------------------------------
\* C12: within one session the persisted message seqs are pairwise distinct
\* and strictly increasing in insertion order.
C12_MessageSeqIncreasing ==
    \A k, l \in 1..Len(messages) :
        (k < l /\ messages[k].sessionId = messages[l].sessionId)
            => messages[k].seq < messages[l].seq

\* ---- C13 -----------------------------------------------------------------
MessageRows(sid, localId) == FindMessage(sid, localId)

NewMessageEvents(sid, localId) ==
    {k \in 1..Len(events) : events[k].t = "new-message" /\ events[k].id = sid
                            /\ events[k].value = localId}

\* message handlers of (sid, localId) that have inserted and not yet emitted
NewMessagePending(sid, localId) ==
    {j \in Slots : h[j].kind = "message" /\ h[j].pc = "emit"
                   /\ h[j].id = sid /\ h[j].localId = localId}

\* a frame of (sid, localId) has been handled to its end on a session that
\* exists: it inserted the message, or found or hit the row already there
Handled(sid, localId) ==
    /\ sessions[sid] # NoRow
    /\ \E j \in Slots :
         /\ h[j].kind = "message" /\ h[j].pc = "done"
         /\ h[j].id = sid /\ h[j].localId = localId
         /\ \/ h[j].path \in {"success", "duplicate"}
            \/ h[j].path = "throw" /\ h[j].msgSeq # 0

\* C13: for message frames carrying the same (sessionId, non-null localId),
\* sequential or concurrent, at most one row is ever persisted and at most
\* one new-message event is emitted or about to be emitted, and exactly one
\* of each once a frame has been handled to its end.
C13_OneRowPerLocalId ==
    \A sid \in SessionIds, localId \in LocalIds :
        /\ Cardinality(MessageRows(sid, localId)) <= 1
        /\ Cardinality(NewMessageEvents(sid, localId))
             + Cardinality(NewMessagePending(sid, localId)) <= 1
        /\ Handled(sid, localId) =>
             /\ Cardinality(MessageRows(sid, localId)) = 1
             /\ Cardinality(NewMessageEvents(sid, localId))
                  + Cardinality(NewMessagePending(sid, localId)) = 1

\* two frames of one (sid, localId) were in flight together, both past the
\* localId lookup, and the second insert was rejected
C13_Witness ==
    \E sid \in SessionIds, localId \in LocalIds :
        /\ Handled(sid, localId)
        /\ \E j \in Slots : h[j].kind = "message" /\ h[j].pc = "done"
                            /\ h[j].id = sid /\ h[j].localId = localId
                            /\ h[j].path = "throw" /\ h[j].msgSeq # 0
        /\ Cardinality(NewMessageEvents(sid, localId)) = 1

\* ---- C14 -----------------------------------------------------------------
\* C14: a message frame dropped as a duplicate has allocated no sequence
\* number: neither Account.seq nor Session.seq was incremented for it.
C14_DuplicateAllocatesNothing ==
    \A i \in Slots :
        (h[i].kind = "message" /\ h[i].pc = "done" /\ h[i].path = "duplicate")
            => (h[i].updSeq = 0 /\ h[i].msgSeq = 0)

\* ---- C15 -----------------------------------------------------------------
\* the filter table: which connection types a recipient filter matches
FilterTable(connection, filter) ==
    \/ /\ filter.type = "all-interested-in-session"
       /\ \/ connection.connectionType = "user-scoped"
          \/ /\ connection.connectionType = "session-scoped"
             /\ connection.sessionId = filter.id
    \/ /\ filter.type = "user-scoped-only"
       /\ connection.connectionType = "user-scoped"
    \/ /\ filter.type = "machine-scoped-only"
       /\ \/ connection.connectionType = "user-scoped"
          \/ /\ connection.connectionType = "machine-scoped"
             /\ connection.machineId = filter.id
    \/ filter.type = "all-user-authenticated-connections"

Emitted == 1..Len(sent)

\* C15: for every emit and every connection the router held for the account,
\* the router decided to send exactly when the filter table matches the
\* connection (and the connection is not the skipped sender).
C15_FilterTable ==
    \A k \in Emitted : \A c \in sent[k].held :
        (c \in sent[k].to)
            <=> (c # sent[k].skip /\ FilterTable(ConnectionOf(c), sent[k].filter))

\* an emit for session 2 found a session-scoped connection of session 1 and a
\* user-scoped connection: sent to the second only
C15_Witness ==
    \E k \in Emitted : \E c, d \in sent[k].held :
        /\ sent[k].filter.type = "all-interested-in-session"
        /\ sent[k].filter.id = 2
        /\ ConnectionOf(c).connectionType = "session-scoped"
        /\ ConnectionOf(d).connectionType = "user-scoped"
        /\ c \notin sent[k].to /\ d \in sent[k].to

\* ---- C16 -----------------------------------------------------------------
UserScopedOnlyEvents ==
    {"new-session", "delete-session", "new-machine", "activity", "machine-activity"}

\* C16: a payload emitted with the user-scoped-only filter, and so every
\* new-session, delete-session, new-machine, activity and machine-activity
\* payload, has arrived on user-scoped connections of the account only.
C16_UserScopedOnly ==
    \A c \in ConnIds : \A n \in 1..Len(recv[c]) :
        LET p == sent[recv[c][n]] IN
        (p.filter.type = "user-scoped-only" \/ p.t \in UserScopedOnlyEvents)
            => /\ ConnectionOf(c).connectionType = "user-scoped"
               /\ ConnectionOf(c).userId = p.userId

\* a user-scoped-only payload arrived on a user-scoped connection while the
\* account also had a session-scoped or machine-scoped connection open
C16_Witness ==
    \E k \in Emitted : \E c, d \in sent[k].held :
        /\ sent[k].filter.type = "user-scoped-only"
        /\ ConnectionOf(c).connectionType # "user-scoped" /\ SocketDelivers(c)
        /\ \E n \in 1..Len(recv[d]) : recv[d][n] = k

\* ---- C17 -----------------------------------------------------------------
Received(c, k) == \E n \in 1..Len(recv[c]) : recv[c][n] = k

\* C17: a payload emitted with skipSenderConnection = C never arrives on C,
\* whatever the filter, and a new-message payload arrives on every other
\* connection the account held that matches all-interested-in-session(sid)
\* and whose socket delivers.
C17_SenderSkipped ==
    \A k \in Emitted :
        /\ \A c \in ConnIds : c = sent[k].skip => ~Received(c, k)
        /\ sent[k].t = "new-message" =>
             \A c \in sent[k].held :
                 (c # sent[k].skip /\ SocketDelivers(c)
                    /\ FilterTable(ConnectionOf(c), sent[k].filter))
                 => Received(c, k)

\* a new-message emit whose sender matched the filter and was held and
\* delivering, and another connection received the payload
C17_Witness ==
    \E k \in Emitted : \E c \in sent[k].held :
        /\ sent[k].t = "new-message" /\ sent[k].skip \in sent[k].held
        /\ SocketDelivers(sent[k].skip)
        /\ FilterTable(ConnectionOf(sent[k].skip), sent[k].filter)
        /\ c # sent[k].skip /\ Received(c, k)

\* ---- C18 -----------------------------------------------------------------
\* C18: a payload emitted for account U has arrived only on connections
\* registered under U, and the router holds a connection only under the
\* account its token was issued to.
C18_NoCrossAccount ==
    /\ \A c \in ConnIds : \A k \in Emitted :
         Received(c, k) => ConnectionOf(c).userId = sent[k].userId
    /\ \A u \in Accounts : \A c \in userConnections[u] : ConnectionOf(c).userId = u

\* an emit for one account arrived there while a connection of the other
\* account, which the filter matches, was registered and delivering
C18_Witness ==
    \E k \in Emitted : \E c, d \in ConnIds :
        /\ Received(c, k)
        /\ ConnectionOf(d).userId # sent[k].userId
        /\ sock[d].phase = "registered" /\ SocketDelivers(d)
        /\ d \in userConnections[ConnectionOf(d).userId]
        /\ FilterTable(ConnectionOf(d), sent[k].filter)
        /\ recv[d] = <<>>

\* ---- C19 -----------------------------------------------------------------
\* no payload arrives later than the emit call that sent it
NoRetryStep ==
    \A c \in ConnIds : \A k \in Emitted : Received(c, k)' => Received(c, k)

C20_HeldWhileConnected ==
    \A c \in ConnIds :
        (\E u \in Accounts : c \in userConnections[u])
            <=> (sock[c].phase = "registered" /\ sock[c].open)

\* ---- C21 -----------------------------------------------------------------
HandshakeErrors ==
    {"Missing authentication token", "Invalid authentication token",
     "Session ID required for session-scoped clients",
     "Machine ID required for machine-scoped clients"}

\* the handshake of socket c has failed, or its token will not verify
HandshakeFails(c) ==
    \/ sock[c].phase = "rejected"
    \/ sock[c].phase = "verifying" /\ sock[c].token = InvalidToken

\* C21: a socket whose handshake fails is sent an error frame and is
\* disconnected, is never held by the event router, never gets handlers and
\* causes no machine-activity broadcast.
C21_FailedHandshake ==
    \A c \in ConnIds :
        HandshakeFails(c) =>
            /\ sock[c].phase = "rejected" =>
                 (sock[c].error \in HandshakeErrors /\ ~sock[c].open)
            /\ \A u \in Accounts : c \notin userConnections[u] /\ c \notin HandlersOf(u)
            /\ \A k \in Emitted : sent[k].from # c

\* one socket was rejected for its token after verification, another before
\* it for a machine-scoped handshake without machineId
C21_Witness ==
    \E c, d \in ConnIds :
        /\ sock[c].phase = "rejected"
        /\ sock[c].error = "Invalid authentication token"
        /\ sock[d].phase = "rejected"
        /\ sock[d].error = "Machine ID required for machine-scoped clients"

\* ---- C22 -----------------------------------------------------------------
MachineActivityFrom(c, active) ==
    {k \in Emitted : sent[k].from = c /\ sent[k].t = "machine-activity"
                     /\ sent[k].body.active = active}

IsMachineConnection(c) ==
    sock[c].phase = "registered" /\ ConnectionOf(c).connectionType = "machine-scoped"

\* C22: a registered machine-scoped connection has broadcast machine-activity
\* active:true to the account's user-scoped connections; once it has
\* disconnected, a user-scoped connection that received the active:true has
\* received the active:false after it; an active:false follows an
\* active:true; and only machine-scoped connections cause such broadcasts.
C22_MachineActivity ==
    /\ \A c \in ConnIds :
         IsMachineConnection(c) =>
           /\ \E k \in MachineActivityFrom(c, TRUE) :
                /\ sent[k].filter.type = "user-scoped-only"
                /\ sent[k].userId = ConnectionOf(c).userId
                /\ sent[k].body.id = ConnectionOf(c).machineId
           /\ \A k \in MachineActivityFrom(c, FALSE) :
                \E k1 \in MachineActivityFrom(c, TRUE) : k1 < k
           /\ ~sock[c].open =>
                \A d \in ConnIds : \A k \in MachineActivityFrom(c, TRUE) :
                    (SocketDelivers(d) /\ Received(d, k))
                        => \E k2 \in MachineActivityFrom(c, FALSE) :
                               k < k2 /\ Received(d, k2)
    /\ \A k \in Emitted :
         sent[k].from # FromHandler =>
             /\ IsMachineConnection(sent[k].from)
             /\ sent[k].t = "machine-activity"

\* C23: once a socket is disconnected no method of any registry maps to it,
\* its disconnect leaves every registration held by another socket as it
\* was, and an rpc-call to a method that is unregistered or whose registrant
\* is not connected is answered {ok:false, error:"RPC method not available"}
\* and forwards no rpc-request.
NotAvailableAnswer(method) ==
    [pc |-> "done", method |-> method, target |-> NoTarget,
     cbs |-> <<[ok |-> FALSE, result |-> "none", error |-> "RPC method not available"]>>]

NoneHeldByDisconnected ==
    \A c \in ConnIds : ~sock[c].open =>
        \A u \in Accounts, m \in Methods : rpcListeners[u][m] # c

DisconnectSparesOthers ==
    \A c \in ConnIds : SocketDisconnect(c) =>
        \A u \in Accounts, m \in Methods :
            rpcListeners[u][m] # c => rpcListeners'[u][m] = rpcListeners[u][m]

UnavailableIsAnswered ==
    \A c \in ConnIds, m \in Methods :
        (/\ RpcCall(c, m)
         /\ \/ rpcListeners[UserOf(c)][m] = NoTarget
            \/ ~sock[rpcListeners[UserOf(c)][m]].open)
        => rpcCall'[c] = NotAvailableAnswer(m)

C23_DisconnectUnregisters ==
    /\ []NoneHeldByDisconnected
    /\ [][DisconnectSparesOthers /\ UnavailableIsAnswered]_vars

\* a socket that had its handlers installed is disconnected, the other
\* socket of the account still holds a method and has had a call to the
\* other method answered as not available
C23_Witness ==
    /\ sock[1].phase = "registered" /\ ~sock[1].open
    /\ HandlersInstalled(2) /\ UserOf(2) = UserOf(1)
    /\ rpcListeners[UserOf(2)]["mb"] = 2
    /\ rpcCall[2] = NotAvailableAnswer("ma")

\* C24: rpc-register by a socket makes the method map to that socket whoever
\* held it before and leaves the other methods alone; rpc-unregister deletes
\* the method only when the requesting socket holds it; a disconnect removes
\* only what the disconnecting socket holds.
RegisterTakesOver ==
    \A c \in ConnIds, m \in Methods : RpcRegister(c, m) =>
        /\ rpcListeners'[UserOf(c)][m] = c
        /\ \A m2 \in Methods \ {m} :
               rpcListeners'[UserOf(c)][m2] = rpcListeners[UserOf(c)][m2]

UnregisterOnlyOwn ==
    \A c \in ConnIds, m \in Methods : RpcUnregister(c, m) =>
        \A m2 \in Methods :
            rpcListeners'[UserOf(c)][m2] =
                IF m2 = m /\ rpcListeners[UserOf(c)][m] = c THEN NoTarget
                ELSE rpcListeners[UserOf(c)][m2]

DisconnectOnlyOwn ==
    \A c \in ConnIds : SocketDisconnect(c) =>
        \A u \in Accounts, m \in Methods :
            rpcListeners'[u][m] =
                IF rpcListeners[u][m] = c THEN NoTarget ELSE rpcListeners[u][m]

C24_LastRegistrantHolds ==
    [][RegisterTakesOver /\ UnregisterOnlyOwn /\ DisconnectOnlyOwn]_vars

\* two connected sockets of one account each hold a method
C24_Witness ==
    /\ HandlersInstalled(1) /\ HandlersInstalled(2) /\ UserOf(1) = UserOf(2)
    /\ rpcListeners[UserOf(1)]["ma"] = 2
    /\ rpcListeners[UserOf(1)]["mb"] = 1

\* C25: RPC routing is per account: a registry entry of account U and the
\* target of a forwarded rpc-call of a socket of U are sockets authenticated
\* as U; a frame or the disconnect of a socket of U leaves the registries of
\* the other accounts as they were; and a method registered only by another
\* account is not available to a caller of U.
RoutedWithinAccount ==
    /\ \A u \in Accounts, m \in Methods :
           rpcListeners[u][m] # NoTarget => sock[rpcListeners[u][m]].token = u
    /\ \A c \in ConnIds :
           rpcCall[c].target # NoTarget =>
               sock[rpcCall[c].target].token = sock[c].token

OtherAccountsUntouched ==
    \A c \in ConnIds, m \in Methods \cup {Missing} :
        (RpcRegister(c, m) \/ RpcUnregister(c, m) \/ RpcCall(c, m) \/ SocketDisconnect(c))
        => \A u \in Accounts \ {sock[c].token} : rpcListeners'[u] = rpcListeners[u]

OtherAccountsInvisible ==
    \A c \in ConnIds, m \in Methods :
        RpcCall(c, m) /\ rpcListeners[sock[c].token][m] = NoTarget
        => rpcCall'[c] = NotAvailableAnswer(m)

C25_PerAccount ==
    /\ []RoutedWithinAccount
    /\ [][OtherAccountsUntouched /\ OtherAccountsInvisible]_vars

\* sockets of two accounts: one holds a method, the other has called that
\* method and was answered that it is not available
C25_Witness ==
    /\ HandlersInstalled(1) /\ HandlersInstalled(2)
    /\ sock[1].token # sock[2].token
    /\ rpcListeners[sock[1].token]["ma"] = 1
    /\ rpcCall[2] = NotAvailableAnswer("ma")

\* C26: an rpc-call forwarded to a connected target other than the caller
\* eventually gets exactly one callback, {ok:true, result} with the target's
\* ack payload or {ok:false, error}; no call gets more than one callback; a
\* call whose target is the caller's own socket is answered
\* {ok:false, error:"Cannot call RPC on the same socket"} without forwarding.
Forwarded(c) == rpcCall[c].target # NoTarget

AckAnswers ==
    {[ok |-> TRUE, result |-> r, error |-> "none"] : r \in AckPayloads}

FailureAnswers ==
    {[ok |-> FALSE, result |-> "none", error |-> "operation has timed out"]}

SameSocketAnswer(method) ==
    [pc |-> "done", method |-> method, target |-> NoTarget,
     cbs |-> <<[ok |-> FALSE, result |-> "none",
                error |-> "Cannot call RPC on the same socket"]>>]

OneCallback ==
    \A c \in ConnIds :
        /\ Len(rpcCall[c].cbs) <= 1
        /\ Forwarded(c) =>
               /\ rpcCall[c].target # c
               /\ rpcCall[c].pc = "awaiting" => rpcCall[c].cbs = <<>>
               /\ rpcCall[c].pc = "done" =>
                      /\ Len(rpcCall[c].cbs) = 1
                      /\ rpcCall[c].cbs[1] \in AckAnswers \cup FailureAnswers

AckUnmodified ==
    \A c \in ConnIds, r \in AckPayloads :
        RpcAck(c, r) => rpcCall'[c].cbs = <<[ok |-> TRUE, result |-> r, error |-> "none"]>>

OwnSocketRefused ==
    \A c \in ConnIds, m \in Methods :
        RpcCall(c, m) /\ rpcListeners[UserOf(c)][m] = c
        => rpcCall'[c] = SameSocketAnswer(m)

C26_OneCallback ==
    /\ []OneCallback
    /\ [][AckUnmodified /\ OwnSocketRefused]_vars
    /\ \A c \in ConnIds :
           (Forwarded(c) /\ rpcCall[c].pc = "awaiting")
               ~> (rpcCall[c].pc = "done" /\ Len(rpcCall[c].cbs) = 1)

\* one call was forwarded and acknowledged with the second payload, and the
\* other socket's call to its own method was refused
C26_Witness ==
    /\ rpcCall[1].pc = "done" /\ rpcCall[1].target = 2
    /\ rpcCall[1].cbs = <<[ok |-> TRUE, result |-> "r2", error |-> "none"]>>
    /\ rpcCall[2] = SameSocketAnswer("ma")

\* C27: a session-alive, session-end or machine-alive heartbeat whose time is
\* more than 10 minutes before now, or whose session or machine is not owned
\* by the connection's account, ends where it arrives: it changes no stored
\* row, emits no ephemeral and has nothing left to run; so every stored
\* lastActiveAt and every ephemeral's activeAt lies inside the window.
TenMinutes == 10 * 60 * 1000

TooOld(time) == time # NotANumber /\ time < Now - TenMinutes

NamedRowOwned(f) ==
    IF f.kind = "machine-alive" THEN machines[<<f.uid, f.mid>>] # NoRow
    ELSE sessions[f.id] # NoRow /\ sessions[f.id].accountId = f.uid

HeartbeatArrives(i) == h[i].pc = "idle" /\ h'[i].kind \in HeartbeatKinds

IgnoredHeartbeat ==
    \A i \in Slots :
        HeartbeatArrives(i) /\ (TooOld(h'[i].time) \/ ~NamedRowOwned(h'[i]))
        => /\ h'[i].pc = "done"
           /\ UNCHANGED <<sessions, machines, ephemerals>>

InsideWindow ==
    /\ \A k \in 1..Len(ephemerals) : ~TooOld(ephemerals[k].activeAt)
    /\ \A sid \in SessionIds : sessions[sid] # NoRow =>
           sessions[sid].lastActiveAt = CreatedAt \/ ~TooOld(sessions[sid].lastActiveAt)
    /\ \A k \in DOMAIN machines : machines[k] # NoRow =>
           machines[k].lastActiveAt = CreatedAt \/ ~TooOld(machines[k].lastActiveAt)
    /\ \A i \in Slots : h[i].kind \in HeartbeatKinds /\ h[i].pc \in {"update", "emit"} =>
           ~TooOld(h[i].time)

C27_IgnoredHeartbeat == []InsideWindow /\ [][IgnoredHeartbeat]_vars

\* a heartbeat that is too old and one for a session the account does not
\* own have ended, the rows they name are as they were created and no ephemeral
\* was emitted
C27_Witness ==
    /\ ephemerals = <<>>
    /\ \E i, j \in Slots :
        /\ h[i].kind = "session-alive" /\ h[i].pc = "done" /\ TooOld(h[i].time)
        /\ NamedRowOwned(h[i])
        /\ sessions[h[i].id].lastActiveAt = CreatedAt /\ sessions[h[i].id].active
        /\ h[j].kind = "session-end" /\ h[j].pc = "done" /\ ~TooOld(h[j].time)
        /\ ~NamedRowOwned(h[j])

\* C28: session creation is idempotent on the tag: an account has at most one
\* session per tag, every answered POST /v1/sessions with that tag returns
\* 200 with that session, the new-session update of a session is emitted at
\* most once, and a request does not change the stored rows of a session
\* that exists.
NewSessionEvents(sid) ==
    {k \in 1..Len(events) : events[k].t = "new-session" /\ events[k].id = sid}

AnsweredWithTheSession ==
    \A i \in Slots :
        (h[i].kind = "create-session" /\ h[i].pc = "done") =>
            /\ h[i].cbs = <<HttpReply(200)>>
            /\ h[i].id \in FindSessionByTag(h[i].uid, h[i].tag)

OneSessionPerTag ==
    /\ \A uid \in Accounts, tag \in Tags : Cardinality(FindSessionByTag(uid, tag)) <= 1
    /\ \A sid \in SessionIds : Cardinality(NewSessionEvents(sid)) <= 1

RepeatChangesNothing ==
    \A i \in Slots :
        (h[i].pc = "idle" /\ h'[i].kind = "create-session") => sessions' = sessions

C28_TagIdempotent ==
    /\ [](AnsweredWithTheSession /\ OneSessionPerTag)
    /\ [][RepeatChangesNothing]_vars

\* C29: the row a POST /v1/sessions creates has metadataVersion 1 and holds
\* the request's agentState with agentStateVersion 1 when one was given, and
\* null with agentStateVersion 0 when none was.
SessionCreatedBy(i) ==
    h[i].kind = "create-session" /\ h[i].pc = "create" /\ h'[i].pc = "emit"

CreatedAsRequested ==
    \A i \in Slots : SessionCreatedBy(i) =>
        LET row == sessions'[h'[i].id] IN
        /\ row.metadataVersion = 1
        /\ row.agentState = h[i].state
        /\ row.agentStateVersion = IF h[i].state = Null THEN 0 ELSE 1

C29_InitialVersions == [][CreatedAsRequested]_vars

\* C30: once DELETE /v1/sessions/S by the owner has succeeded, Session S and
\* every SessionMessage of S are gone and stay gone, exactly one
\* delete-session update for S has been emitted, for the owner and to
\* user-scoped connections only, and GET /v1/sessions/S/messages answers 404.
DeleteSessionEvents(sid) ==
    {k \in 1..Len(events) : events[k].t = "delete-session" /\ events[k].id = sid}

SessionGone(sid) ==
    /\ sessions[sid] = NoRow
    /\ \A k \in 1..Len(messages) : messages[k].sessionId # sid
    /\ \A uid \in Accounts : GetMessagesStatus(uid, sid) = 404

DeletedBy(i) ==
    h[i].kind = "delete-session" /\ h[i].pc = "done" /\ h[i].cbs = <<HttpReply(200)>>

DeleteArrives(i) == h[i].pc = "idle" /\ h'[i].kind = "delete-session"

NotTheOwners(uid, sid) == sessions[sid] = NoRow \/ sessions[sid].accountId # uid

RefusedDeleteChangesNothing ==
    \A i \in Slots :
        DeleteArrives(i) /\ NotTheOwners(h'[i].uid, h'[i].id)
        => /\ h'[i].pc = "done"
           /\ h'[i].cbs = <<HttpReply(404)>>
           /\ UNCHANGED <<sessions, messages, accountSeq, events>>

RefusedDeleteEmitsNothing ==
    \A i \in Slots :
        (h[i].kind = "delete-session" /\ h[i].cbs = <<HttpReply(404)>>)
        => /\ h[i].pc = "done" /\ h[i].updSeq = 0
           /\ \A k \in 1..Len(events) :
                  events[k].t = "delete-session" /\ events[k].id = h[i].id
                  => events[k].userId # h[i].uid \/ sessions[h[i].id] = NoRow

C31_RefusedDelete == []RefusedDeleteEmitsNothing /\ [][RefusedDeleteChangesNothing]_vars

\* a DELETE for the session of another account was answered 404 and the
\* session is still there
C31_Witness ==
    \E i \in Slots :
        /\ h[i].kind = "delete-session" /\ h[i].pc = "done"
        /\ h[i].cbs = <<HttpReply(404)>>
        /\ sessions[h[i].id] # NoRow /\ sessions[h[i].id].accountId # h[i].uid
        /\ events # <<>>

\* C32: a pairing request transitions at most once: once a response call has
\* written response and responseAccountId they never change, whatever
\* response calls follow or run at the same time.
ResponseWritten(publicKey) ==
    authRequests[publicKey] # NoRow
        /\ authRequests[publicKey].responseAccountId # NoAccount

WrittenOnce ==
    \A publicKey \in PublicKeys :
        ResponseWritten(publicKey) => authRequests'[publicKey] = authRequests[publicKey]

C32_TransitionsOnce == [][WrittenOnce]_vars

\* C33: a poll for a public key is answered requested as long as no response
\* has been written for the key and authorized afterwards, with the written
\* response and a token that verifies to the account that wrote it; after an
\* authorized answer no poll for the key is answered requested.
Polled(publicKey) ==
    /\ Len(polls') = Len(polls) + 1
    /\ polls'[Len(polls')].publicKey = publicKey

PollTellsTheRow ==
    \A publicKey \in PublicKeys : Polled(publicKey) =>
        LET answer == polls'[Len(polls')] IN
        IF ResponseWritten(publicKey)
        THEN /\ answer.state = "authorized"
             /\ answer.response = authRequests[publicKey].response
             /\ VerifiedUser(answer.token) = authRequests[publicKey].responseAccountId
        ELSE answer.state = "requested"

AuthorizedStays ==
    \A j, k \in 1..Len(polls) :
        (j < k /\ polls[j].publicKey = polls[k].publicKey
               /\ polls[j].state = "authorized")
        => polls[k].state = "authorized"

C33_PollFollowsResponse == []AuthorizedStays /\ [][PollTellsTheRow]_vars

\* C34: POST /v1/machines is idempotent on (accountId, id): every answered
\* request returns 200 with the machine; a request that finds the machine
\* changes nothing and emits nothing; the machine's new-machine update is
\* emitted once, to user-scoped connections, directly followed by the one
\* update-machine update of metadata version 1 with filter
\* machine-scoped-only(id), which carries the larger account seq.
NewMachineEvents(uid, mid) ==
    {k \in 1..Len(events) : /\ events[k].t = "new-machine"
                            /\ events[k].userId = uid /\ events[k].id = mid}

FirstMachineUpdates(uid, mid) ==
    {k \in 1..Len(events) : /\ events[k].t = "update-machine"
                            /\ events[k].userId = uid /\ events[k].id = mid
                            /\ events[k].field = "metadata" /\ events[k].version = 1}

MachineAnswered ==
    \A i \in Slots :
        (h[i].kind = "create-machine" /\ h[i].pc = "done") =>
            /\ h[i].cbs = <<HttpReply(200)>>
            /\ machines[<<h[i].uid, h[i].mid>>] # NoRow

MachineAnnouncedOnce ==
    \A uid \in Accounts, mid \in MachineIds :
        /\ Cardinality(NewMachineEvents(uid, mid)) <= 1
        /\ Cardinality(FirstMachineUpdates(uid, mid)) <= 1
        /\ \A k \in NewMachineEvents(uid, mid) :
               /\ events[k].filter.type = "user-scoped-only"
               /\ k + 1 \in FirstMachineUpdates(uid, mid)
               /\ events[k + 1].filter.type = "machine-scoped-only"
               /\ events[k + 1].filter.id = mid
               /\ events[k].seq < events[k + 1].seq
        /\ \A k \in FirstMachineUpdates(uid, mid) : k - 1 \in NewMachineEvents(uid, mid)

RepeatedMachineChangesNothing ==
    \A i \in Slots :
        (/\ h[i].pc = "idle" /\ h'[i].kind = "create-machine"
         /\ machines[<<h'[i].uid, h'[i].mid>>] # NoRow)
        => /\ h'[i].pc = "done" /\ h'[i].cbs = <<HttpReply(200)>>
           /\ UNCHANGED <<machines, accountSeq, events>>

C34_MachineIdempotent ==
    /\ [](MachineAnswered /\ MachineAnnouncedOnce)
    /\ [][RepeatedMachineChangesNothing]_vars

\* C35: a ping frame that reaches the server on a connected socket with its
\* handlers installed is acknowledged, and a flush whose ping reached the
\* server so has its acknowledgement on the way and does not depend on its
\* own timeout.
PingReaches(c) == flush[c].ping = "sent" /\ flush'[c].ping # "sent"

PingIsAcked ==
    \A c \in ConnIds :
        PingReaches(c) /\ sock[c].phase = "registered" /\ sock[c].open
        => flush'[c].ping = "acked"

C35_PingAcked == [][PingIsAcked]_vars

\* ---- C36 ---------------------------------------------------------------
\* call w returns a batch in this step
Returns(w) ==
    /\ calls[w].pc \in {"idle", "resumed"}
    /\ calls'[w].pc = "done"
    /\ ~calls'[w].result.null

\* n items at the head of q are a run of non-isolated items of the head's hash
\* that no further item continues
MaximalRun(q, n) ==
    /\ n \in 1..Len(q)
    /\ \A k \in 1..n : ~q[k].isolate /\ ModeHasher(q[k].mode) = ModeHasher(q[1].mode)
    /\ n < Len(q) => q[n + 1].isolate \/ ModeHasher(q[n + 1].mode) # ModeHasher(q[1].mode)

\* batch b is what the head of q asks for, and rest is what it leaves
ModeConsistent(b, q, rest) ==
    /\ q # <<>>
    /\ b.mode = q[1].mode
    /\ b.hash = ModeHasher(q[1].mode)
    /\ b.isolate = q[1].isolate
    /\ \E n \in 1..Len(q) :
         /\ IF q[1].isolate THEN n = 1 ELSE MaximalRun(q, n)
         /\ b.message = [k \in 1..n |-> q[k].message]
         /\ rest = [k \in 1..(Len(q) - n) |-> q[k + n]]

BatchIsModeConsistent ==
    \A w \in Calls : Returns(w) => ModeConsistent(calls'[w].result, queue, queue')

QueueIsPending == Join(queue) = pending

\* a returned batch is a non-empty prefix of those messages, and they are
\* the ones that leave the queue
BatchIsPrefix ==
    \A w \in Calls : Returns(w) =>
        LET b == calls'[w].result.message IN
        /\ b # <<>>
        /\ Len(b) <= Len(pending)
        /\ b = SubSeq(pending, 1, Len(b))
        /\ Join(queue') = SubSeq(pending, Len(b) + 1, Len(pending))

\* C37: for any sequence of push, pushImmediate, unshift, pushIsolateAndClear,
\* reset and wait calls, every message queued and not discarded is in the
\* queue until a batch returns it, each batch returns the messages at the
\* front in queue order, and a returned message leaves the queue, so that
\* none is lost and none is returned twice
C37_NothingLostOrDuplicated == []QueueIsPending /\ [][BatchIsPrefix]_vars

\* an unshifted message was returned before the message pushed earlier,
\* and a message of another mode hash still waits
C37_Witness ==
    \E w \in Calls :
        /\ calls[w].pc = "done"
        /\ calls[w].result.message = <<2, 1>>
        /\ pending = <<3>>
        /\ Join(queue) = <<3>>

\* ---- C38 ---------------------------------------------------------------
\* a message is put into the queue in this step
Queues ==
    /\ ~closed
    /\ \E mode \in Modes :
         Push(mode) \/ PushImmediate(mode) \/ PushIsolateAndClear(mode) \/ Unshift(mode)

ResolvedWith(w, value) == calls'[w].pc = "resumed" /\ calls'[w].has = value

BlockedWaitIsResolved ==
    \A w \in Calls : calls[w].pc = "blocked" =>
        /\ Queues => ResolvedWith(w, TRUE)
        /\ QueueClose => ResolvedWith(w, FALSE)
        /\ Abort(w) => ResolvedWith(w, FALSE)

\* C38: a call of waitForMessagesAndGetAsString that is blocked on the empty
\* queue is resolved by the next push, pushImmediate, unshift or
\* pushIsolateAndClear (to collect a batch), by close (with null) and by the
\* abort of its signal (with null), whatever queue operations, reset
\* included, were called while it waited
C38_BlockedWaitResolved == [][BlockedWaitIsResolved]_vars

\* ---- C39 ---------------------------------------------------------------
CachedNeverExceedsStored ==
    client.sid # NoSessionId =>
        \A field \in Fields : client.version[field] <= StoredVersion(client.sid, field)

CachedNeverDecreases ==
    client.sid # NoSessionId =>
        \A field \in Fields : client'.version[field] >= client.version[field]

\* C39: the metadataVersion and agentStateVersion the client caches never
\* decrease and never exceed the version the server stores, whatever the
\* order in which update-session events and the success and version-mismatch
\* answers to the client's own update-metadata / update-state requests arrive
C39_CachedVersions == []CachedNeverExceedsStored /\ [][CachedNeverDecreases]_vars

\* ---- C40 ---------------------------------------------------------------
\* the batch the launcher holds back, if any
HeldBack == IF launcher.pending.null THEN <<>> ELSE <<launcher.pending.message>>

\* every batch taken from the queue was returned to claudeRemote, in the
\* order taken, or is the pending one
NoBatchDropped == delivered \o HeldBack = taken

\* a launch that starts with a pending batch gets it as its first message
PendingGoesFirst ==
    launcher.pc = "nextMessage" /\ ~launcher.pending.null /\ ~launcher.hasMode
    /\ launcher'.pc # "nextMessage"
    => delivered' = Append(delivered, launcher.pending.message)

\* C40: no batch the launcher took from the message queue is dropped: a batch
\* of another mode hash than the running launch, or an isolated one, is held
\* as pending and is the first message of the next launch, also when an abort
\* or switch RPC ends the launcher while it is pending
C40_NoBatchDropped == []NoBatchDropped /\ [][PendingGoesFirst]_vars
====
